---- MODULE Spec2Model ----
(***************************************************************************)
(* clearmodel: the path-safety validator (security.rs) and the concurrent  *)
(* directory-pruning engine (resource_manager.rs).                         *)
(*                                                                         *)
(* A path is a record [abs, comps]: abs tells whether it starts at the     *)
(* filesystem root, comps is the sequence of its components ("..", "." or  *)
(* a name).  A path string is a sequence of one-character strings, so that *)
(* prefix, length and substring tests are computed as the code computes    *)
(* them on strings.                                                        *)
(***************************************************************************)
EXTENDS Integers, Sequences, FiniteSets, TLC

\* ------------------------------------------------------------------ bounds
\* Longest cache_paths list drawn for a sweep.
MaxRoots == 2
\* Largest max_parallel_operations drawn for a sweep.
MaxParallel == 2
\* Longest component sequence of a path handed to the validator.
MaxPathLen == 3
\* Files per batch of a root job; the source value is 100
\* (resource_manager.rs:228), scaled so that a root spans several batches.
batch_size == 2

\* ----------------------------------------------------------------- strings
Min(a, b) == IF a <= b THEN a ELSE b

\* str::starts_with
StartsWith(s, pre) ==
    /\ Len(pre) <= Len(s)
    /\ \A i \in 1..Len(pre) : s[i] = pre[i]

\* str::contains
Contains(s, sub) ==
    \E k \in 0..(Len(s) - Len(sub)) : \A i \in 1..Len(sub) : s[k + i] = sub[i]

UpperChars == <<"A","B","C","D","E","F","G","H","I","J","K","L","M",
                "N","O","P","Q","R","S","T","U","V","W","X","Y","Z">>

LowerChars == <<"a","b","c","d","e","f","g","h","i","j","k","l","m",
                "n","o","p","q","r","s","t","u","v","w","x","y","z">>

LowerChar(c) ==
    IF \E i \in 1..Len(UpperChars) : UpperChars[i] = c
    THEN LowerChars[CHOOSE i \in 1..Len(UpperChars) : UpperChars[i] = c]
    ELSE c

\* str::to_lowercase
to_lowercase(s) == [i \in 1..Len(s) |-> LowerChar(s[i])]

\* The characters of every component name of the modelled world.
NameChars ==
    [n \in {"etc", "cache", "Music", "nope", "lnk", "new", "tmp",
            "passwd", "var", "log", "x..y", "a.pyc", "b.txt", "c.log",
            "h.pyc", "__pycache__", "f.PYC", "edge.txt", "old.txt",
            "late.txt", "venv", "n.txt", "n.pyc", "ln.pyc", "..", "."} |->
        CASE n = "etc"    -> <<"e","t","c">>
          [] n = "cache"  -> <<"c","a","c","h","e">>
          [] n = "Music"  -> <<"M","u","s","i","c">>
          [] n = "nope"   -> <<"n","o","p","e">>
          [] n = "lnk"    -> <<"l","n","k">>
          [] n = "new"    -> <<"n","e","w">>
          [] n = "tmp"    -> <<"t","m","p">>
          [] n = "passwd" -> <<"p","a","s","s","w","d">>
          [] n = "var"    -> <<"v","a","r">>
          [] n = "log"    -> <<"l","o","g">>
          [] n = "x..y"   -> <<"x",".",".","y">>
          [] n = "a.pyc"  -> <<"a",".","p","y","c">>
          [] n = "b.txt"  -> <<"b",".","t","x","t">>
          [] n = "c.log"  -> <<"c",".","l","o","g">>
          [] n = "h.pyc"  -> <<"h",".","p","y","c">>
          [] n = "__pycache__" -> <<"_","_","p","y","c","a","c","h","e","_","_">>
          [] n = "f.PYC"    -> <<"f",".","P","Y","C">>
          [] n = "edge.txt" -> <<"e","d","g","e",".","t","x","t">>
          [] n = "old.txt"  -> <<"o","l","d",".","t","x","t">>
          [] n = "late.txt" -> <<"l","a","t","e",".","t","x","t">>
          [] n = "venv"     -> <<"v","e","n","v">>
          [] n = "n.txt"    -> <<"n",".","t","x","t">>
          [] n = "n.pyc"    -> <<"n",".","p","y","c">>
          [] n = "ln.pyc"   -> <<"l","n",".","p","y","c">>
          [] n = ".."     -> <<".",".">>
          [] n = "."      -> <<".">>]

\* ------------------------------------------------------------------- paths
AbsPath(comps) == [abs |-> TRUE, comps |-> comps]

RECURSIVE JoinChars(_)
JoinChars(comps) ==
    IF comps = <<>> THEN <<>>
    ELSE IF Len(comps) = 1 THEN NameChars[comps[1]]
    ELSE NameChars[comps[1]] \o <<"/">> \o JoinChars(Tail(comps))

\* Path::to_string_lossy
to_string_lossy(p) ==
    IF p.abs THEN <<"/">> \o JoinChars(p.comps) ELSE JoinChars(p.comps)

IsPrefix(pre, s) ==
    /\ Len(pre) <= Len(s)
    /\ \A i \in 1..Len(pre) : s[i] = pre[i]

\* Path::starts_with: whole components are compared, never parts of a name.
starts_with(p, base) ==
    /\ p.abs = base.abs
    /\ IsPrefix(base.comps, p.comps)

Front(s) == SubSeq(s, 1, Len(s) - 1)

Last(s) == s[Len(s)]

\* Path::join
join(p, q) == IF q.abs THEN q ELSE [abs |-> p.abs, comps |-> p.comps \o q.comps]

\* ------------------------------------------------------------------- world
\* The directories of the host, by real (canonical) location.
Dirs == { <<>>, <<"etc">>, <<"cache">>, <<"Music">>, <<"var">>,
          <<"var", "__pycache__">> }

\* The regular files of the host when the program starts; /var/venv is a
\* regular file that bears the name of a virtual-environment directory.
Files == { <<"cache", "a.pyc">>, <<"cache", "b.txt">>, <<"Music", "c.log">>,
           <<"etc", "h.pyc">>, <<"var", "f.PYC">>, <<"var", "edge.txt">>,
           <<"var", "old.txt">>, <<"var", "late.txt">>, <<"var", "venv">>,
           <<"var", "n.txt">>, <<"var", "n.pyc">>,
           <<"var", "__pycache__", "b.txt">>,
           <<"var", "__pycache__", "n.txt">> }

\* The regular files another process of the host may create while the
\* program runs.
LateFiles == { <<"cache", "h.pyc">> }

\* The locations a regular file may exist at.
RegularFiles == Files \cup LateFiles

\* f is the location of a regular file when it exists.
IsRegularFile(f) == f \in Files \/ f \in LateFiles

\* The symbolic links of the host and the real location each points to:
\* /cache/lnk points to a directory, /var/ln.pyc to a regular file.
Links == { <<"cache", "lnk">>, <<"var", "ln.pyc">> }

LinkTarget(l) ==
    IF l = <<"var", "ln.pyc">> THEN <<"var", "edge.txt">> ELSE <<"Music">>

FileSize(f) ==
    CASE f = <<"cache", "a.pyc">> -> 1024
      [] f = <<"cache", "b.txt">> -> 5
      [] f = <<"Music", "c.log">> -> 7
      [] f = <<"etc", "h.pyc">>   -> 17
      [] OTHER -> 3

DaySecs == 24 * 3600

\* SystemTime::now() of the sweep, in seconds.
Now == 20 * DaySecs

\* The files whose modification time the host does not report:
\* Metadata::modified returns an error for them.
NoMTime == { <<"var", "n.txt">>, <<"var", "n.pyc">>,
             <<"var", "__pycache__", "n.txt">> }

\* Modification time of a file, in seconds: c.log and venv are 10 days old,
\* edge.txt exactly 7 days, old.txt one second more, late.txt has a
\* modification time one day in the future, a file created while the program
\* runs is new, the other files are 1 day old.
FileMTime(f) ==
    CASE f = <<"Music", "c.log">>  -> Now - 10 * DaySecs
      [] f \in LateFiles           -> Now
      [] f = <<"var", "venv">>     -> Now - 10 * DaySecs
      [] f = <<"var", "edge.txt">> -> Now - 7 * DaySecs
      [] f = <<"var", "old.txt">>  -> Now - 7 * DaySecs - 1
      [] f = <<"var", "late.txt">> -> Now + DaySecs
      [] OTHER -> Now - DaySecs

\* Order in which read_dir lists the entries of a directory.
DirOrder == <<"a.pyc", "b.txt", "c.log", "edge.txt", "f.PYC", "h.pyc",
              "late.txt", "ln.pyc", "n.pyc", "n.txt", "old.txt", "venv",
              "lnk", "__pycache__", "cache", "etc", "Music", "var">>

\* std::env::current_dir()
current_dir == AbsPath(<<"cache">>)

\* Resolution of a component sequence below the real directory cur, as the
\* host resolves a path: "." stays, ".." goes to the parent (the root is its
\* own parent), a name must exist in E (the files and links that exist), a
\* link is followed, and nothing can be resolved below a regular file.
RECURSIVE ResolveFrom(_, _, _, _)
ResolveFrom(cur, isDir, rest, E) ==
    IF rest = <<>> THEN [ok |-> TRUE, real |-> cur, dir |-> isDir]
    ELSE IF ~isDir THEN [ok |-> FALSE, real |-> cur, dir |-> FALSE]
    ELSE LET c == Head(rest)
             nxt == Append(cur, c)
         IN  IF c = "." THEN ResolveFrom(cur, TRUE, Tail(rest), E)
             ELSE IF c = ".." THEN
                 ResolveFrom(IF cur = <<>> THEN cur ELSE Front(cur), TRUE, Tail(rest), E)
             ELSE IF nxt \in Dirs THEN ResolveFrom(nxt, TRUE, Tail(rest), E)
             ELSE IF nxt \in Links /\ nxt \in E THEN
                 IF LinkTarget(nxt) \in Dirs \/ LinkTarget(nxt) \in E
                 THEN ResolveFrom(LinkTarget(nxt), LinkTarget(nxt) \in Dirs,
                                  Tail(rest), E)
                 ELSE [ok |-> FALSE, real |-> nxt, dir |-> FALSE]
             ELSE IF IsRegularFile(nxt) /\ nxt \in E THEN
                 ResolveFrom(nxt, FALSE, Tail(rest), E)
             ELSE [ok |-> FALSE, real |-> nxt, dir |-> FALSE]

\* Path::canonicalize: the real location, an error when an entry is missing.
canonicalize(p, E) ==
    ResolveFrom(IF p.abs THEN <<>> ELSE current_dir.comps, TRUE, p.comps, E)

\* Path::exists
exists(p, E) == canonicalize(p, E).ok

\* PathClean::clean: lexical cleaning, the filesystem is not consulted.
RECURSIVE CleanComps(_, _, _)
CleanComps(abs, out, rest) ==
    IF rest = <<>> THEN out
    ELSE LET c == Head(rest)
         IN  IF c = "." THEN CleanComps(abs, out, Tail(rest))
             ELSE IF c = ".." THEN
                 IF out # <<>> /\ Last(out) # ".."
                 THEN CleanComps(abs, Front(out), Tail(rest))
                 ELSE IF abs THEN CleanComps(abs, out, Tail(rest))
                 ELSE CleanComps(abs, Append(out, ".."), Tail(rest))
             ELSE CleanComps(abs, Append(out, c), Tail(rest))

clean(p) == [abs |-> p.abs, comps |-> CleanComps(p.abs, <<>>, p.comps)]

\* --------------------------------------------------------------- errors.rs
Ok(v) == [kind |-> "Ok", value |-> v]

\* ClearModelError::path_traversal
path_traversal(p) == [kind |-> "PathTraversal", value |-> p]

\* ClearModelError::security
security(msg) == [kind |-> "Security", value |-> msg]

\* ClearModelError::file_operation
file_operation(msg, p) == [kind |-> "FileOperation", value |-> p]

IsOk(r) == r.kind = "Ok"

\* ------------------------------------------------------------- security.rs
\* A faulty manual resolution: a relative path is not anchored at the
\* current directory.
resolve_path_manually_unanchored(p) == clean(p)

\* SecurityManager::resolve_path_manually
resolve_path_manually(p) ==
    LET cleaned == clean(p)
    IN  IF ~cleaned.abs THEN join(current_dir, cleaned) ELSE cleaned

\* SecurityManager::validate_path_components.  Path::components drops every
\* "." that is not the first component of a relative path.
validate_path_components(p) ==
    IF \E i \in 1..Len(p.comps) :
          \/ p.comps[i] = ".."
          \/ p.comps[i] = "." /\ i = 1 /\ ~p.abs
          \/ /\ p.comps[i] \notin {"..", "."}
             /\ \/ Contains(NameChars[p.comps[i]], <<".", ".">>)
                \/ Contains(NameChars[p.comps[i]], <<".", "/">>)
    THEN security("suspicious or unresolved component")
    ELSE Ok(p)

\* A faulty containment test: the arguments of starts_with are swapped.
WithinBaseSwapped(abs_path, abs_base) == starts_with(abs_base, abs_path)

\* The starts_with test of validate_and_sanitize_path (security.rs:44).
WithinBase(abs_path, abs_base) == starts_with(abs_path, abs_base)

\* SecurityManager::validate_and_sanitize_path
validate_and_sanitize_path(path, allowed_base, E) ==
    LET c == canonicalize(path, E)
        abs_path == IF c.ok THEN AbsPath(c.real) ELSE resolve_path_manually(path)
        b == canonicalize(allowed_base, E)
        abs_base == AbsPath(b.real)
    IN  IF ~b.ok THEN file_operation("Failed to resolve base path", allowed_base)
        ELSE IF ~WithinBase(abs_path, abs_base) THEN path_traversal(abs_path)
        ELSE IF ~IsOk(validate_path_components(abs_path))
             THEN validate_path_components(abs_path)
        ELSE Ok(abs_path)

dangerous_paths ==
    << <<"/">>,
       <<"/","b","i","n">>,
       <<"/","b","o","o","t">>,
       <<"/","d","e","v">>,
       <<"/","e","t","c">>,
       <<"/","l","i","b">>,
       <<"/","p","r","o","c">>,
       <<"/","r","o","o","t">>,
       <<"/","s","b","i","n">>,
       <<"/","s","y","s">>,
       <<"/","u","s","r">>,
       <<"/","v","a","r","/","l","o","g">>,
       <<"/","v","a","r","/","l","i","b">> >>

\* The test made for one blocklist entry (security.rs:165).
IsDangerous(path_str, dangerous) ==
    StartsWith(path_str, dangerous) /\ Len(path_str) <= Len(dangerous) + 1

\* SecurityManager::validate_deletion_safety on a host that is not macOS.
validate_deletion_safety(path) ==
    LET path_str == to_string_lossy(path)
    IN  IF \E i \in 1..Len(dangerous_paths) : IsDangerous(path_str, dangerous_paths[i])
        THEN security("Attempted to delete critical system path")
        ELSE Ok(path)

user_data_indicators ==
    << <<"d","o","c","u","m","e","n","t","s">>,
       <<"d","e","s","k","t","o","p">>,
       <<"d","o","w","n","l","o","a","d","s">>,
       <<"p","i","c","t","u","r","e","s">>,
       <<"m","u","s","i","c">>,
       <<"v","i","d","e","o","s">>,
       <<"d","r","o","p","b","o","x">>,
       <<"g","o","o","g","l","e","d","r","i","v","e">> >>

\* is_user_data of validate_cache_path (security.rs:217).
is_user_data(path_str) ==
    \E i \in 1..Len(user_data_indicators) : Contains(path_str, user_data_indicators[i])

\* A faulty validate_cache_path: the path is not lower-cased before the
\* keywords are looked for.
validate_cache_path_case_sensitive(path) ==
    IF is_user_data(to_string_lossy(path))
    THEN security("Refusing to clean user data directory")
    ELSE Ok(path)

\* SecurityManager::validate_cache_path.  The cache_indicators test only
\* logs a warning and decides nothing.
validate_cache_path(path) ==
    LET path_str == to_lowercase(to_string_lossy(path))
    IN  IF is_user_data(path_str)
        THEN security("Refusing to clean user data directory")
        ELSE Ok(path)

\* ------------------------------------------------------------------- state
VARIABLES
    config,          \* ClearModelConfig of the ResourceManager
    dry_run,         \* argument of clean_all_caches
    fs,              \* the files and links that exist on the host
    pc,              \* position of clean_all_caches
    tasks,           \* the spawned tasks: the root each one cleans
    jobs,            \* per task: position and locals of the spawned job
    permits,         \* available permits of the semaphore
    operation_stats, \* DashMap path_key -> OperationStats
    results,         \* the results vector of clean_all_caches
    vin,             \* arguments of a call of a SecurityManager function
    vout,            \* what that call returned
    op,              \* the CacheCleaner operation the sweep is run for
    estimate,        \* what estimate_cleanup_space returned
    outcome          \* what CacheCleaner::clean_all_caches returned to main

vars == <<config, dry_run, fs, pc, tasks, jobs, permits, operation_stats,
          results, vin, vout, op, estimate, outcome>>

cleanerVars == <<op, estimate, outcome>>

sweepVars == <<config, dry_run, fs, pc, tasks, jobs, permits, operation_stats,
               results, cleanerVars>>

\* ---------------------------------------------------------------- config.rs
\* The roots a configuration may list.
RootCandidates ==
    { AbsPath(<<"cache">>), AbsPath(<<"etc">>),
      AbsPath(<<"cache", "..", "Music">>), AbsPath(<<"nope">>) }

SeqsUpTo(S, n) == UNION { [1..k -> S] : k \in 0..n }

\* ClearModelConfig::default, with the fields a sweep reads; the fields drawn
\* per sweep are set in Init.
DefaultConfig ==
    [ cache_paths |-> <<>>,
      max_cache_age_days |-> 7,
      max_parallel_operations |-> 10,
      follow_symlinks |-> FALSE,
      python_cache_extensions |-> { <<".","p","y","c">>, <<".","p","y","o">>,
                                    <<".","p","y","d">> },
      skip_directories |-> { ".git", ".svn", "node_modules", ".venv", "venv",
                             "__pycache__" },
      security |-> [ validate_cache_paths |-> TRUE, max_path_depth |-> 20 ] ]

\* Path::parent
parent(p) == [abs |-> p.abs, comps |-> Front(p.comps)]

\* ClearModelError::configuration
configuration(msg) == [kind |-> "Configuration", value |-> msg]

\* A faulty validate: only the parents of the roots are checked.
validate_parents_only(cfg, E) ==
    \A i \in 1..Len(cfg.cache_paths) :
        cfg.cache_paths[i].comps # <<>> => exists(parent(cfg.cache_paths[i]), E)

\* ClearModelConfig::validate: TRUE for Ok, FALSE for a configuration error.
validate(cfg, E) ==
    /\ cfg.cache_paths # <<>>
    /\ cfg.max_parallel_operations # 0
    /\ cfg.security.max_path_depth # 0
    /\ \A i \in 1..Len(cfg.cache_paths) :
          cfg.cache_paths[i].comps # <<>> => exists(parent(cfg.cache_paths[i]), E)

\* The configurations ClearModelConfig::load deserializes, before validate.
Configs ==
    { [DefaultConfig EXCEPT !.cache_paths = cp,
                            !.max_parallel_operations = mp,
                            !.follow_symlinks = fl,
                            !.security.validate_cache_paths = vc,
                            !.security.max_path_depth = md] :
        cp \in SeqsUpTo(RootCandidates, MaxRoots), mp \in 0..MaxParallel,
        fl \in BOOLEAN, vc \in BOOLEAN, md \in {0, 20} }

RECURSIVE SelectSeq2(_, _, _)
SelectSeq2(s, E, i) ==
    IF i > Len(s) THEN <<>>
    ELSE (IF exists(s[i], E) THEN <<s[i]>> ELSE <<>>) \o SelectSeq2(s, E, i + 1)

\* ClearModelConfig::existing_cache_paths
existing_cache_paths(cfg, E) == SelectSeq2(cfg.cache_paths, E, 1)

\* ------------------------------------------------------ resource_manager.rs
\* Path::file_name: nothing when the path ends in "..".
file_name(p) ==
    IF p.comps = <<>> \/ Last(p.comps) = ".." THEN "" ELSE Last(p.comps)

\* A faulty extension: the characters are lower-cased, so that the
\* comparison with the configured extensions ignores case.
extension_lowercased(p) ==
    LET n == IF p.comps = <<>> \/ Last(p.comps) = ".." THEN "" ELSE Last(p.comps)
        cs == IF n = "" THEN <<>> ELSE to_lowercase(NameChars[n])
        dots == { i \in 1..Len(cs) : cs[i] = "." }
        last == CHOOSE i \in dots : \A k \in dots : k <= i
    IN  IF dots = {} \/ last = 1
        THEN [some |-> FALSE, ext |-> <<>>]
        ELSE [some |-> TRUE, ext |-> SubSeq(cs, last + 1, Len(cs))]

\* Path::extension, as characters: the part of the file name after its last
\* dot; nothing when there is no dot or the only dot starts the name.
extension(p) ==
    LET n == file_name(p)
        cs == IF n = "" THEN <<>> ELSE NameChars[n]
        dots == { i \in 1..Len(cs) : cs[i] = "." }
        last == CHOOSE i \in dots : \A k \in dots : k <= i
    IN  IF dots = {} \/ last = 1
        THEN [some |-> FALSE, ext |-> <<>>]
        ELSE [some |-> TRUE, ext |-> SubSeq(cs, last + 1, Len(cs))]

\* std::fs::metadata: follows links, fails when the entry does not exist.
\* has_modified tells whether Metadata::modified returns Ok.
metadata(p, E) ==
    LET c == canonicalize(p, E)
    IN  IF c.ok /\ IsRegularFile(c.real)
        THEN [ok |-> TRUE, len |-> FileSize(c.real),
              has_modified |-> c.real \notin NoMTime,
              modified |-> FileMTime(c.real)]
        ELSE [ok |-> c.ok, len |-> 0, has_modified |-> TRUE, modified |-> Now]

\* A faulty age rule: the maximum age is taken in hours, not in days.
ExpiredHours(modified, max_cache_age_days) ==
    LET age == IF Now >= modified THEN Now - modified ELSE 0
        max_age == max_cache_age_days * 3600
    IN  age > max_age

\* The age rule of should_clean_file (resource_manager.rs:334-343).
Expired(modified, max_cache_age_days) ==
    LET age == IF Now >= modified THEN Now - modified ELSE 0
        max_age == max_cache_age_days * 24 * 3600
    IN  age > max_age

\* A faulty should_clean_file: a file without modification time is an error.
should_clean_file_requiring_mtime(file_path, cfg, E) ==
    LET e == extension(file_path)
        md == metadata(file_path, E)
    IN  IF ~md.ok \/ ~md.has_modified
        THEN file_operation("Failed to get file metadata", file_path)
        ELSE IF e.some /\ (<<".">> \o e.ext) \in cfg.python_cache_extensions
        THEN Ok(TRUE)
        ELSE IF file_path.comps # <<>> /\ file_name(parent(file_path)) = "__pycache__"
        THEN Ok(TRUE)
        ELSE Ok(Expired(md.modified, cfg.max_cache_age_days))

\* ResourceManager::should_clean_file
should_clean_file(file_path, cfg, E) ==
    LET e == extension(file_path)
        md == metadata(file_path, E)
    IN  IF e.some /\ (<<".">> \o e.ext) \in cfg.python_cache_extensions
        THEN Ok(TRUE)
        ELSE IF file_path.comps # <<>> /\ file_name(parent(file_path)) = "__pycache__"
        THEN Ok(TRUE)
        ELSE IF ~md.ok
        THEN file_operation("Failed to get file metadata", file_path)
        ELSE IF md.has_modified
        THEN Ok(Expired(md.modified, cfg.max_cache_age_days))
        ELSE Ok(FALSE)

\* The entry std::fs::remove_file unlinks: the last component itself, a link
\* is not followed.  Nothing when there is no such file or link.
RemoveTarget(p, E) ==
    LET par == canonicalize(parent(p), E)
        entry == Append(par.real, Last(p.comps))
    IN  IF /\ p.comps # <<>>
           /\ Last(p.comps) \notin {"..", "."}
           /\ par.ok /\ par.dir
           /\ entry \in E
        THEN {entry} ELSE {}

\* A faulty deletion step: the file is removed in a dry run too.
DeleteStepIgnoringDryRun(file_path, file_size, dry, E) ==
    IF RemoveTarget(file_path, E) # {}
    THEN [res |-> Ok(<<1, file_size>>), fs |-> E \ RemoveTarget(file_path, E)]
    ELSE [res |-> file_operation("Failed to delete file", file_path), fs |-> E]

\* A faulty deletion step: the error of remove_file is dropped and the file
\* is counted as removed.
DeleteStepIgnoringFailure(file_path, file_size, dry, E) ==
    [res |-> Ok(<<1, file_size>>),
     fs |-> IF dry THEN E ELSE E \ RemoveTarget(file_path, E)]

\* What process_single_file does with a file the policy selected and whose
\* size it has read (resource_manager.rs:290-307).
DeleteStep(file_path, file_size, dry, E) ==
    IF dry THEN [res |-> Ok(<<1, file_size>>), fs |-> E]
    ELSE IF RemoveTarget(file_path, E) # {}
    THEN [res |-> Ok(<<1, file_size>>), fs |-> E \ RemoveTarget(file_path, E)]
    ELSE [res |-> file_operation("Failed to delete file", file_path), fs |-> E]

\* A faulty process_single_file: the size of a file the policy retains is
\* reported as freed.
process_single_file_sized(file_path, cfg, dry, E) ==
    LET sc == should_clean_file(file_path, cfg, E)
        md == metadata(file_path, E)
    IN  IF ~IsOk(sc) THEN [res |-> sc, fs |-> E]
        ELSE IF ~sc.value THEN [res |-> Ok(<<0, md.len>>), fs |-> E]
        ELSE IF ~md.ok
        THEN [res |-> file_operation("Failed to get file metadata", file_path), fs |-> E]
        ELSE DeleteStep(file_path, md.len, dry, E)

\* ResourceManager::process_single_file: the result and the files left.
process_single_file(file_path, cfg, dry, E) ==
    LET sc == should_clean_file(file_path, cfg, E)
        md == metadata(file_path, E)
    IN  IF ~IsOk(sc) THEN [res |-> sc, fs |-> E]
        ELSE IF ~sc.value THEN [res |-> Ok(<<0, 0>>), fs |-> E]
        ELSE IF ~md.ok
        THEN [res |-> file_operation("Failed to get file metadata", file_path), fs |-> E]
        ELSE DeleteStep(file_path, md.len, dry, E)

\* What a view of the host that still holds a file adds when the file has
\* been removed since: the state process_single_file read its metadata in
\* when another job removed the file before its remove_file call.
StaleViews(file_path, E) ==
    LET par == canonicalize(parent(file_path), E)
        entry == Append(par.real, Last(file_path.comps))
    IN  IF /\ file_path.comps # <<>>
           /\ Last(file_path.comps) \notin {"..", "."}
           /\ par.ok /\ par.dir
           /\ entry \notin E
           /\ (IsRegularFile(entry) \/ entry \in Links)
        THEN {E \cup {entry}} ELSE {}

\* ResourceManager::process_single_file when the host changes between its
\* reads and its remove_file call: the policy and the size are read in the
\* state seen (resource_manager.rs:277-287), the file is removed from E
\* (295-301).
process_single_file_raced(file_path, cfg, dry, seen, E) ==
    LET sc == should_clean_file(file_path, cfg, seen)
        md == metadata(file_path, seen)
    IN  IF ~IsOk(sc) THEN [res |-> sc, fs |-> E]
        ELSE IF ~sc.value THEN [res |-> Ok(<<0, 0>>), fs |-> E]
        ELSE IF ~md.ok
        THEN [res |-> file_operation("Failed to get file metadata", file_path), fs |-> E]
        ELSE DeleteStep(file_path, md.len, dry, E)

\* The outcomes of one call of process_single_file made while other jobs
\* run: the call sees the host as it is, or it has read a file that another
\* job removes before the call reaches remove_file.
ProcessOutcomes(file_path, cfg, dry, E) ==
    { process_single_file(file_path, cfg, dry, E) }
    \cup { process_single_file_raced(file_path, cfg, dry, seen, E) :
              seen \in StaleViews(file_path, E) }

\* filter_entry predicate (resource_manager.rs:201-208)
KeepEntry(name, cfg) == name \notin cfg.skip_directories

\* A faulty depth test: the walk goes one level further down.
BeyondDepthOffByOne(depth, cfg) == depth > cfg.security.max_path_depth + 1

\* max_depth of the walker (resource_manager.rs:198): the root has depth 0
\* and no entry deeper than max_path_depth is yielded.
BeyondDepth(depth, cfg) == depth > cfg.security.max_path_depth

\* The files walkdir yields below the directory real, reached as access,
\* whose entries lie at depth; the entries DirOrder[i..] are still to list.
RECURSIVE WalkFrom(_, _, _, _, _, _)
WalkFrom(access, real, depth, i, cfg, E) ==
    IF BeyondDepth(depth, cfg) \/ i > Len(DirOrder) THEN <<>>
    ELSE LET n == DirOrder[i]
             node == Append(real, n)
             acc == [abs |-> access.abs, comps |-> Append(access.comps, n)]
             here ==
                 IF ~KeepEntry(n, cfg) THEN <<>>
                 ELSE IF node \in Dirs THEN WalkFrom(acc, node, depth + 1, 1, cfg, E)
                 ELSE IF IsRegularFile(node) /\ node \in E THEN <<acc>>
                 ELSE IF node \in Links /\ node \in E /\ cfg.follow_symlinks THEN
                     IF LinkTarget(node) \in Dirs
                     THEN WalkFrom(acc, LinkTarget(node), depth + 1, 1, cfg, E)
                     ELSE IF IsRegularFile(LinkTarget(node)) /\ LinkTarget(node) \in E
                     THEN <<acc>>
                     ELSE <<>>
                 ELSE <<>>
         IN  here \o WalkFrom(access, real, depth, i + 1, cfg, E)

\* The entries_to_process of process_directory_contents
\* (resource_manager.rs:196-225): the regular files the walker yields.
Walker(path, cfg, E) ==
    LET r == canonicalize(path, E)
    IN  IF ~r.ok THEN <<>>
        ELSE IF file_name(path) # "" /\ ~KeepEntry(file_name(path), cfg) THEN <<>>
        ELSE IF r.dir THEN WalkFrom(path, r.real, 1, 1, cfg, E)
        ELSE <<path>>

\* ------------------------------------------------------------ the sweep
NoInput == [fn |-> "none"]

\* OperationStats::default, without its timestamps
DefaultStats == [files_processed |-> 0, bytes_cleaned |-> 0, errors_encountered |-> 0]

\* A task that tokio::spawn has created and that waits for its permit.
\* aggregated keeps, per index of entries, the result of every file whose
\* batch the aggregation loop has gone through.
SpawnedJob(path) ==
    [ pc |-> "spawned", path |-> path, checks |-> {}, entries |-> <<>>,
      batch_start |-> 1, batch_results |-> <<>>, aggregated |-> <<>>,
      total_files |-> 0, total_bytes |-> 0, output |-> NoInput ]

\* The program has deserialized a configuration and read its command line.
Init ==
    /\ config \in Configs
    /\ dry_run \in BOOLEAN
    /\ fs = Files \cup Links
    /\ pc = "Load"
    /\ tasks = <<>>
    /\ jobs = <<>>
    /\ permits = 0
    /\ operation_stats = <<>>
    /\ results = <<>>
    /\ vin = NoInput
    /\ vout = NoInput
    /\ op = "clean_all_caches"
    /\ estimate = NoInput
    /\ outcome = NoInput

\* End of ClearModelConfig::load (config.rs:143): a configuration that
\* fails validate ends the program with a configuration error; else
\* ResourceManager::new builds the semaphore and clean_all_caches is called.
Load ==
    /\ pc = "Load"
    /\ IF validate(config, fs)
       THEN /\ pc' = "Idle"
            /\ permits' = config.max_parallel_operations
       ELSE /\ pc' = "ConfigError"
            /\ UNCHANGED permits
    /\ UNCHANGED <<config, dry_run, fs, tasks, jobs, operation_stats, results,
                   vin, vout, cleanerVars>>

\* check_system_resources (resource_manager.rs:74): high memory usage is
\* only logged, the call always returns Ok.
CheckSystemResources ==
    /\ pc = "Idle"
    /\ pc' = "Dispatch"
    /\ UNCHANGED <<config, dry_run, fs, tasks, jobs, permits, operation_stats,
                   results, vin, vout, cleanerVars>>

\* A faulty dispatch: the tasks are spawned without waiting for the
\* resource check.
DispatchUnchecked ==
    /\ pc \in {"Idle", "Dispatch"}
    /\ LET cache_paths == existing_cache_paths(config, fs)
       IN  IF cache_paths = <<>>
           THEN /\ pc' = "Done"
                /\ UNCHANGED <<tasks, jobs>>
           ELSE /\ pc' = "AwaitAll"
                /\ tasks' = cache_paths
                /\ jobs' = [j \in 1..Len(cache_paths) |-> SpawnedJob(cache_paths[j])]
    /\ UNCHANGED <<config, dry_run, fs, permits, operation_stats, results,
                   vin, vout, cleanerVars>>

\* resource_manager.rs:76-99: one task is spawned per existing root; without
\* an existing root the empty list is returned.
Dispatch ==
    /\ pc = "Dispatch"
    /\ LET cache_paths == existing_cache_paths(config, fs)
       IN  IF cache_paths = <<>>
           THEN /\ pc' = "Done"
                /\ UNCHANGED <<tasks, jobs>>
           ELSE /\ pc' = "AwaitAll"
                /\ tasks' = cache_paths
                /\ jobs' = [j \in 1..Len(cache_paths) |-> SpawnedJob(cache_paths[j])]
    /\ UNCHANGED <<config, dry_run, fs, permits, operation_stats, results,
                   vin, vout, cleanerVars>>

\* A faulty acquire: the task goes on without waiting for a free permit.
AcquireUngated(j) ==
    /\ j \in DOMAIN jobs
    /\ jobs[j].pc = "spawned"
    /\ permits' = permits - 1
    /\ jobs' = [jobs EXCEPT ![j].pc = "acquired"]
    /\ UNCHANGED <<config, dry_run, fs, pc, tasks, operation_stats, results,
                   vin, vout, cleanerVars>>

\* semaphore.acquire().await (resource_manager.rs:94)
Acquire(j) ==
    /\ j \in DOMAIN jobs
    /\ jobs[j].pc = "spawned"
    /\ permits > 0
    /\ permits' = permits - 1
    /\ jobs' = [jobs EXCEPT ![j].pc = "acquired"]
    /\ UNCHANGED <<config, dry_run, fs, pc, tasks, operation_stats, results,
                   vin, vout, cleanerVars>>

\* The security checks clean_cache_directory makes on its root, in order
\* (resource_manager.rs:145-151): the functions called, and the first error
\* or Ok.
SecurityChecks(path, cfg) ==
    IF cfg.security.validate_cache_paths /\ ~IsOk(validate_cache_path(path))
    THEN [called |-> {"validate_cache_path"}, res |-> validate_cache_path(path)]
    ELSE [called |-> (IF cfg.security.validate_cache_paths
                      THEN {"validate_cache_path"} ELSE {})
                     \cup {"validate_deletion_safety"},
          res |-> validate_deletion_safety(path)]

\* A faulty start: a task whose root fails a check keeps its permit.
StartJobKeepingPermit(j) ==
    /\ j \in DOMAIN jobs
    /\ jobs[j].pc = "acquired"
    /\ operation_stats' = (jobs[j].path :> DefaultStats) @@ operation_stats
    /\ LET sc == SecurityChecks(jobs[j].path, config)
       IN  IF IsOk(sc.res)
           THEN jobs' = [jobs EXCEPT ![j].pc = "walk", ![j].checks = sc.called]
           ELSE jobs' = [jobs EXCEPT ![j].pc = "done", ![j].checks = sc.called,
                                     ![j].output = sc.res]
    /\ UNCHANGED <<config, dry_run, fs, pc, tasks, permits, results, vin, vout,
                   cleanerVars>>

\* Start of clean_cache_directory (resource_manager.rs:137-159): the stats
\* of the root are reset and the root is checked.  A failed check returns
\* the error from the task, which drops its permit.
StartJob(j) ==
    /\ j \in DOMAIN jobs
    /\ jobs[j].pc = "acquired"
    /\ operation_stats' = (jobs[j].path :> DefaultStats) @@ operation_stats
    /\ LET sc == SecurityChecks(jobs[j].path, config)
       IN  IF IsOk(sc.res)
           THEN /\ jobs' = [jobs EXCEPT ![j].pc = "walk", ![j].checks = sc.called]
                /\ UNCHANGED permits
           ELSE /\ jobs' = [jobs EXCEPT ![j].pc = "done", ![j].checks = sc.called,
                                        ![j].output = sc.res]
                /\ permits' = permits + 1
    /\ UNCHANGED <<config, dry_run, fs, pc, tasks, results, vin, vout, cleanerVars>>

\* resource_manager.rs:196-229: the walk collects the files to process.
Walk(j) ==
    /\ j \in DOMAIN jobs
    /\ jobs[j].pc = "walk"
    /\ LET entries == Walker(jobs[j].path, config, fs)
       IN  jobs' = [jobs EXCEPT ![j].entries = entries,
                                ![j].pc = IF entries = <<>> THEN "finish" ELSE "batch"]
    /\ UNCHANGED <<config, dry_run, fs, pc, tasks, permits, operation_stats,
                   results, vin, vout, cleanerVars>>

\* A faulty batching: the current batch takes every file that is left.
BatchIndexesAll(job) == job.batch_start .. Len(job.entries)

\* The indexes of entries that make the current batch of a job.
BatchIndexes(job) ==
    job.batch_start .. Min(job.batch_start + batch_size - 1, Len(job.entries))

\* One worker of par_iter processes one file of the current batch
\* (resource_manager.rs:232-237); the files of a batch are taken in any order.
ProcessFile(j) ==
    /\ j \in DOMAIN jobs
    /\ jobs[j].pc = "batch"
    /\ \E i \in BatchIndexes(jobs[j]) \ DOMAIN jobs[j].batch_results :
          \E r \in ProcessOutcomes(jobs[j].entries[i], config, dry_run, fs) :
              /\ fs' = r.fs
              /\ jobs' = [jobs EXCEPT ![j].batch_results = (i :> r.res) @@ @]
    /\ UNCHANGED <<config, dry_run, pc, tasks, permits, operation_stats,
                   results, vin, vout, cleanerVars>>

\* A faulty sum: the files are counted whichever field is asked for.
SumOkFiles(rs, S, k) ==
    Cardinality({ i \in S : IsOk(rs[i]) /\ rs[i].value[1] = 1 })

RECURSIVE SumOk(_, _, _)
\* Sum of field k of the Ok results among the indexes S.
SumOk(rs, S, k) ==
    IF S = {} THEN 0
    ELSE LET i == CHOOSE x \in S : TRUE
         IN  (IF IsOk(rs[i]) THEN rs[i].value[k] ELSE 0) + SumOk(rs, S \ {i}, k)

\* The statistics update after a batch (resource_manager.rs:246-261).
UpdateStats(stat, batch_len, errs, total_bytes) ==
    [ files_processed |-> stat.files_processed + batch_len,
      bytes_cleaned |-> stat.bytes_cleaned + total_bytes,
      errors_encountered |-> stat.errors_encountered + errs ]

\* A faulty end of a batch: the tree is walked again and the files the walk
\* finds now are taken as the files to process.
ReduceWalkingAgain(j) ==
    /\ j \in DOMAIN jobs
    /\ jobs[j].pc = "batch"
    /\ BatchIndexes(jobs[j]) \subseteq DOMAIN jobs[j].batch_results
    /\ LET job == jobs[j]
           B == BatchIndexes(job)
           total_files == job.total_files + SumOk(job.batch_results, B, 1)
           total_bytes == job.total_bytes + SumOk(job.batch_results, B, 2)
           errs == Cardinality({ i \in B : ~IsOk(job.batch_results[i]) })
           nxt == job.batch_start + batch_size
           entries == SubSeq(job.entries, 1, nxt - 1) \o Walker(job.path, config, fs)
       IN  /\ jobs' = [jobs EXCEPT ![j].total_files = total_files,
                                   ![j].total_bytes = total_bytes,
                                   ![j].batch_results = <<>>,
                                   ![j].aggregated = job.batch_results @@ @,
                                   ![j].batch_start = nxt,
                                   ![j].entries = entries,
                                   ![j].pc = IF nxt > Len(entries)
                                             THEN "finish" ELSE "batch"]
           /\ operation_stats' =
                 IF job.path \in DOMAIN operation_stats
                 THEN [operation_stats EXCEPT ![job.path] =
                          UpdateStats(@, Cardinality(B), errs, total_bytes)]
                 ELSE operation_stats
    /\ UNCHANGED <<config, dry_run, fs, pc, tasks, permits, results,
                   vin, vout, cleanerVars>>

\* resource_manager.rs:239-264: the results of the batch are added to the
\* totals, the statistics are updated and the next batch starts.
Reduce(j) ==
    /\ j \in DOMAIN jobs
    /\ jobs[j].pc = "batch"
    /\ BatchIndexes(jobs[j]) \subseteq DOMAIN jobs[j].batch_results
    /\ LET job == jobs[j]
           B == BatchIndexes(job)
           total_files == job.total_files + SumOk(job.batch_results, B, 1)
           total_bytes == job.total_bytes + SumOk(job.batch_results, B, 2)
           errs == Cardinality({ i \in B : ~IsOk(job.batch_results[i]) })
           nxt == job.batch_start + batch_size
       IN  /\ jobs' = [jobs EXCEPT ![j].total_files = total_files,
                                   ![j].total_bytes = total_bytes,
                                   ![j].batch_results = <<>>,
                                   ![j].aggregated = job.batch_results @@ @,
                                   ![j].batch_start = nxt,
                                   ![j].pc = IF nxt > Len(job.entries)
                                             THEN "finish" ELSE "batch"]
           /\ operation_stats' =
                 IF job.path \in DOMAIN operation_stats
                 THEN [operation_stats EXCEPT ![job.path] =
                          UpdateStats(@, Cardinality(B), errs, total_bytes)]
                 ELSE operation_stats
    /\ UNCHANGED <<config, dry_run, fs, pc, tasks, permits, results,
                   vin, vout, cleanerVars>>

\* CleanupResult, without its duration.  process_directory_contents has no
\* path that returns an error, so errors stays empty.
CleanupResult(path, files, bytes) ==
    [path |-> path, files_removed |-> files, bytes_freed |-> bytes, errors |-> <<>>]

\* A faulty end of the task: the permit is not given back.
FinishKeepingPermit(j) ==
    /\ j \in DOMAIN jobs
    /\ jobs[j].pc = "finish"
    /\ jobs' = [jobs EXCEPT ![j].pc = "done",
                            ![j].output = Ok(CleanupResult(jobs[j].path,
                                                           jobs[j].total_files,
                                                           jobs[j].total_bytes))]
    /\ UNCHANGED <<config, dry_run, fs, pc, tasks, permits, operation_stats,
                   results, vin, vout, cleanerVars>>

\* End of clean_cache_directory (resource_manager.rs:162-182) and of the
\* task, which drops its permit.
Finish(j) ==
    /\ j \in DOMAIN jobs
    /\ jobs[j].pc = "finish"
    /\ jobs' = [jobs EXCEPT ![j].pc = "done",
                            ![j].output = Ok(CleanupResult(jobs[j].path,
                                                           jobs[j].total_files,
                                                           jobs[j].total_bytes))]
    /\ permits' = permits + 1
    /\ UNCHANGED <<config, dry_run, fs, pc, tasks, operation_stats, results,
                   vin, vout, cleanerVars>>

\* A faulty collection: a result replaces the results collected so far.
CollectOverwrite(res, output) == IF IsOk(output) THEN <<output.value>> ELSE res

\* A faulty collection: a result is put in front of the results collected
\* so far.
CollectInFront(res, output) == IF IsOk(output) THEN <<output.value>> \o res ELSE res

\* What awaiting one finished task adds to results (resource_manager.rs:104-114).
Collect(res, output) == IF IsOk(output) THEN Append(res, output.value) ELSE res

RECURSIVE CollectAllUntilError(_, _, _)
\* A faulty loop over the tasks: the first failed task ends the loop.
CollectAllUntilError(res, js, i) ==
    IF i > Len(js) \/ ~IsOk(js[i].output) THEN res
    ELSE CollectAllUntilError(Append(res, js[i].output.value), js, i + 1)

RECURSIVE CollectAll(_, _, _)
\* The loop over the tasks (resource_manager.rs:102-115), from task i on.
CollectAll(res, js, i) ==
    IF i > Len(js) THEN res
    ELSE CollectAll(Collect(res, js[i].output), js, i + 1)

\* A faulty wait: only the first task is awaited, the other tasks are left
\* running when clean_all_caches returns.
AwaitFirstOnly ==
    /\ pc = "AwaitAll"
    /\ jobs[1].pc = "done"
    /\ results' = Collect(<<>>, jobs[1].output)
    /\ pc' = "Summarize"
    /\ UNCHANGED <<config, dry_run, fs, tasks, jobs, permits, operation_stats,
                   vin, vout, cleanerVars>>

\* clean_all_caches awaits the tasks in the order it spawned them; the loop
\* ends when the last of them has completed.
AwaitAll ==
    /\ pc = "AwaitAll"
    /\ \A j \in DOMAIN jobs : jobs[j].pc = "done"
    /\ results' = CollectAll(<<>>, jobs, 1)
    /\ pc' = "Summarize"
    /\ UNCHANGED <<config, dry_run, fs, tasks, jobs, permits, operation_stats,
                   vin, vout, cleanerVars>>

\* resource_manager.rs:117-127: the summary is logged and results returned.
Summarize ==
    /\ pc = "Summarize"
    /\ pc' = "Done"
    /\ UNCHANGED <<config, dry_run, fs, tasks, jobs, permits, operation_stats,
                   results, vin, vout, cleanerVars>>

\* results.iter().map(|r| r.bytes_freed).sum()
RECURSIVE SumBytesFreed(_)
SumBytesFreed(rs) ==
    IF rs = <<>> THEN 0 ELSE Head(rs).bytes_freed + SumBytesFreed(Tail(rs))

\* End of clean_ml_model_caches (cache_cleaner.rs:56-61): the sweep has
\* returned Ok and clean_framework_specific_caches only logs what fails; the
\* command-line tools it runs touch no file of the modelled host.
CleanFrameworkSpecificCaches ==
    /\ pc = "Done"
    /\ op = "clean_all_caches"
    /\ pc' = "PythonCaches"
    /\ UNCHANGED <<config, dry_run, fs, tasks, jobs, permits, operation_stats,
                   results, vin, vout, cleanerVars>>

\* One file of a batch is done: its result is kept under its index.
BatchStep(acc, i, r) == [rs |-> (i :> r.res) @@ acc.rs, fs |-> r.fs]

RECURSIVE FoldBatch(_, _, _, _, _, _)
\* The results of the files entries[i..last], processed one after the other
\* when no other job runs, and the files left; acc holds the results so far.
FoldBatch(entries, i, last, cfg, dry, acc) ==
    IF i > last THEN acc
    ELSE FoldBatch(entries, i + 1, last, cfg, dry,
                   BatchStep(acc, i,
                             process_single_file(entries[i], cfg, dry, acc.fs)))

\* The aggregation of one batch (resource_manager.rs:240-260): B holds the
\* indices of the batch and b its results.
Aggregate(acc, B, b) ==
    LET total_files == acc.total_files + SumOk(b.rs, B, 1)
        total_bytes == acc.total_bytes + SumOk(b.rs, B, 2)
        errs == Cardinality({ i \in B : ~IsOk(b.rs[i]) })
    IN  [ total_files |-> total_files,
          total_bytes |-> total_bytes,
          stat |-> UpdateStats(acc.stat, Cardinality(B), errs, total_bytes),
          fs |-> b.fs ]

\* The index of the last file of the batch that starts at index start.
BatchEnd(entries, start) == Min(start + batch_size - 1, Len(entries))

RECURSIVE RunBatches(_, _, _, _, _)
\* process_directory_contents from the batch that starts at index start on,
\* when no other job runs: acc holds total_files, total_bytes, the counters
\* of the root and the files left.
RunBatches(entries, start, cfg, dry, acc) ==
    IF start > Len(entries) THEN acc
    ELSE RunBatches(entries, start + batch_size, cfg, dry,
                    Aggregate(acc, start..BatchEnd(entries, start),
                              FoldBatch(entries, start, BatchEnd(entries, start),
                                        cfg, dry, [rs |-> <<>>, fs |-> acc.fs])))

\* The end of clean_cache_directory (resource_manager.rs:162-182): acc is
\* what process_directory_contents has counted.
Completed(path, acc) ==
    [ res |-> Ok(CleanupResult(path, acc.total_files, acc.total_bytes)),
      stat |-> acc.stat, fs |-> acc.fs ]

\* ResourceManager::clean_cache_directory called outside a sweep, when no
\* other job runs: its result, the counters of its root and the files left.
clean_cache_directory(path, cfg, dry, E) ==
    IF ~IsOk(SecurityChecks(path, cfg).res)
    THEN [res |-> SecurityChecks(path, cfg).res, stat |-> DefaultStats, fs |-> E]
    ELSE Completed(path, RunBatches(Walker(path, cfg, E), 1, cfg, dry,
                                    [ total_files |-> 0, total_bytes |-> 0,
                                      stat |-> DefaultStats, fs |-> E ]))

\* The directories the program may be started in.
CurrentDirs == { current_dir, AbsPath(<<"Music">>), AbsPath(<<"etc">>) }

\* clean_python_cache_files (cache_cleaner.rs:44, 159-165) cleans the
\* directory std::env::current_dir() returns (resource_manager.rs:383-396);
\* an error of clean_cache_directory is returned with ? from
\* CacheCleaner::clean_all_caches to main (main.rs:56-64).
CleanPythonCaches ==
    /\ pc = "PythonCaches"
    /\ \E cwd \in CurrentDirs :
          \E r \in { clean_cache_directory(cwd, config, dry_run, fs) } :
             /\ fs' = r.fs
             /\ operation_stats' = (cwd :> r.stat) @@ operation_stats
             /\ outcome' = IF IsOk(r.res) THEN Ok(<<>>) ELSE r.res
    /\ pc' = "Exit"
    /\ UNCHANGED <<config, dry_run, tasks, jobs, permits, results, vin, vout,
                   op, estimate>>

\* The tasks a sweep can spawn.
JobIds == 1..MaxRoots

Next ==
    \/ Load
    \/ CheckSystemResources
    \/ Dispatch
    \/ \E j \in JobIds : Acquire(j)
    \/ \E j \in JobIds : StartJob(j)
    \/ \E j \in JobIds : Walk(j)
    \/ \E j \in JobIds : ProcessFile(j)
    \/ \E j \in JobIds : Reduce(j)
    \/ \E j \in JobIds : Finish(j)
    \/ AwaitAll
    \/ Summarize
    \/ CleanFrameworkSpecificCaches
    \/ CleanPythonCaches

Spec == Init /\ [][Next]_vars

\* The steps of the task tokio::spawn created for root j.
JobStep(j) ==
    \/ Acquire(j)
    \/ StartJob(j)
    \/ Walk(j)
    \/ ProcessFile(j)
    \/ Reduce(j)
    \/ Finish(j)

\* The steps of the main task: main, CacheCleaner::clean_all_caches and
\* ResourceManager::clean_all_caches.
MainStep ==
    \/ Load
    \/ CheckSystemResources
    \/ Dispatch
    \/ AwaitAll
    \/ Summarize
    \/ CleanFrameworkSpecificCaches
    \/ CleanPythonCaches

\* Task j can take a step: it has not completed and, while it waits for
\* its permit, a permit is free.
JobCanStep(j) ==
    /\ j \in DOMAIN jobs
    /\ jobs[j].pc # "done"
    /\ jobs[j].pc = "spawned" => permits > 0

\* JobCanStep(j) is the enabling condition of the steps of task j.
JobCanStepIsEnabled ==
    \A j \in JobIds : JobCanStep(j) <=> ENABLED <<JobStep(j)>>_vars

\* The tokio runtime polls every task that is ready, and the semaphore
\* hands a free permit to a task that waits for one: a task that can take
\* a step without interruption eventually takes one.  For the spawned
\* tasks weak fairness is written out with the enabling condition
\* JobCanStep: WF_vars(JobStep(j)) is []<>~ENABLED <<JobStep(j)>>_vars \/
\* []<><<JobStep(j)>>_vars.
Fairness ==
    /\ WF_vars(MainStep)
    /\ \A j \in JobIds : []<>(~JobCanStep(j)) \/ []<><<JobStep(j)>>_vars

\* The program under fair scheduling.
SpecFair == Spec /\ Fairness

\* ------------------------------------- estimate_cleanup_space, then a sweep
\* A caller of the CacheCleaner asks for an estimate first: the sweep is run
\* with dry_run = true (cache_cleaner.rs:265).
InitEstimate ==
    /\ config \in Configs
    /\ dry_run = TRUE
    /\ fs = Files \cup Links
    /\ pc = "Load"
    /\ tasks = <<>>
    /\ jobs = <<>>
    /\ permits = 0
    /\ operation_stats = <<>>
    /\ results = <<>>
    /\ vin = NoInput
    /\ vout = NoInput
    /\ op = "estimate_cleanup_space"
    /\ estimate = NoInput
    /\ outcome = NoInput

\* End of estimate_cleanup_space (cache_cleaner.rs:266-273): the bytes of the
\* results are summed and returned; the results are kept here next to the
\* sum.  The caller then calls clean_all_caches with the dry_run it chooses,
\* on the same ResourceManager.
EstimateReturns ==
    /\ pc = "Done"
    /\ op = "estimate_cleanup_space"
    /\ estimate' = [bytes |-> SumBytesFreed(results), results |-> results]
    /\ op' = "clean_all_caches"
    /\ dry_run' \in BOOLEAN
    /\ pc' = "Idle"
    /\ tasks' = <<>>
    /\ jobs' = <<>>
    /\ results' = <<>>
    /\ UNCHANGED <<config, fs, permits, operation_stats, vin, vout, outcome>>

NextEstimate ==
    \/ Next
    \/ EstimateReturns

SpecEstimate == InitEstimate /\ [][NextEstimate]_vars

\* ------------------------------------------- calls of the SecurityManager
\* Component names of the paths handed to validate_and_sanitize_path.
ValidateNames == {"cache", "lnk", "Music", "..", "a.pyc", "new", "x..y"}

\* Component names of the paths handed to the two root checks.
RootCheckNames == {"etc", "passwd", "tmp", "var", "log", "Music", "cache"}

\* The allowed_base directories of validate_and_sanitize_path.
Bases == { AbsPath(<<>>), AbsPath(<<"cache">>), AbsPath(<<"Music">>),
           AbsPath(<<"cache", "lnk">>), AbsPath(<<"nope">>) }

PathsOver(names) ==
    { [abs |-> a, comps |-> c] : a \in BOOLEAN, c \in SeqsUpTo(names, MaxPathLen) }

SecurityCalls ==
    { [fn |-> "validate_and_sanitize_path", path |-> p, base |-> b] :
        p \in PathsOver(ValidateNames), b \in Bases }
    \cup
    { [fn |-> f, path |-> AbsPath(c), base |-> AbsPath(<<>>)] :
        f \in {"validate_deletion_safety", "validate_cache_path"},
        c \in SeqsUpTo(RootCheckNames, MaxPathLen) }

\* A caller is about to call one function of the SecurityManager; no sweep
\* is running.
InitSecurity ==
    /\ vin \in SecurityCalls
    /\ vout = NoInput
    /\ config = [DefaultConfig EXCEPT !.cache_paths = <<AbsPath(<<"cache">>)>>]
    /\ dry_run = TRUE
    /\ fs = Files \cup Links
    /\ pc = "Idle"
    /\ tasks = <<>>
    /\ jobs = <<>>
    /\ permits = config.max_parallel_operations
    /\ operation_stats = <<>>
    /\ results = <<>>
    /\ op = "clean_all_caches"
    /\ estimate = NoInput
    /\ outcome = NoInput

CallValidateAndSanitizePath ==
    /\ vin.fn = "validate_and_sanitize_path"
    /\ vout = NoInput
    /\ vout' = [fn |-> vin.fn, res |-> validate_and_sanitize_path(vin.path, vin.base, fs)]
    /\ UNCHANGED <<vin, sweepVars>>

CallValidateDeletionSafety ==
    /\ vin.fn = "validate_deletion_safety"
    /\ vout = NoInput
    /\ vout' = [fn |-> vin.fn, res |-> validate_deletion_safety(vin.path)]
    /\ UNCHANGED <<vin, sweepVars>>

CallValidateCachePath ==
    /\ vin.fn = "validate_cache_path"
    /\ vout = NoInput
    /\ vout' = [fn |-> vin.fn, res |-> validate_cache_path(vin.path)]
    /\ UNCHANGED <<vin, sweepVars>>

NextSecurity ==
    \/ CallValidateAndSanitizePath
    \/ CallValidateDeletionSafety
    \/ CallValidateCachePath

SpecSecurity == InitSecurity /\ [][NextSecurity]_vars

\* ---------------------------------------------- calls of should_clean_file
\* Component names of the paths handed to should_clean_file.
PolicyNames == {"var", "cache", "__pycache__", "a.pyc", "b.txt", "f.PYC",
                "edge.txt", "old.txt", "late.txt", "n.txt", "n.pyc"}

\* The max_cache_age_days of the configurations should_clean_file is called
\* with.
PolicyConfigs ==
    { [DefaultConfig EXCEPT !.cache_paths = <<AbsPath(<<"cache">>)>>,
                            !.max_cache_age_days = d] : d \in {0, 7} }

\* A caller is about to call should_clean_file on a path; no sweep is
\* running.
InitPolicy ==
    /\ vin \in { [fn |-> "should_clean_file", path |-> p] :
                    p \in PathsOver(PolicyNames) }
    /\ vout = NoInput
    /\ config \in PolicyConfigs
    /\ dry_run = TRUE
    /\ fs = Files \cup Links
    /\ pc = "Idle"
    /\ tasks = <<>>
    /\ jobs = <<>>
    /\ permits = config.max_parallel_operations
    /\ operation_stats = <<>>
    /\ results = <<>>
    /\ op = "clean_all_caches"
    /\ estimate = NoInput
    /\ outcome = NoInput

CallShouldCleanFile ==
    /\ vin.fn = "should_clean_file"
    /\ vout = NoInput
    /\ vout' = [fn |-> vin.fn, res |-> should_clean_file(vin.path, config, fs)]
    /\ UNCHANGED <<vin, sweepVars>>

NextPolicy == CallShouldCleanFile

SpecPolicy == InitPolicy /\ [][NextPolicy]_vars

\* ------------------------------------------- calls of clean_python_caches
\* The directories the caller of clean_python_caches is in.
WalkRoots == { AbsPath(<<"var">>), AbsPath(<<"var", "__pycache__">>),
               AbsPath(<<"cache">>) }

\* The skip_directories of the configurations: the default list, the default
\* list without __pycache__, and the empty list.
SkipLists == { DefaultConfig.skip_directories,
               DefaultConfig.skip_directories \ {"__pycache__"}, {} }

\* The configurations clean_python_caches is called with.
WalkConfigs ==
    { [DefaultConfig EXCEPT !.cache_paths = <<AbsPath(<<"cache">>)>>,
                            !.follow_symlinks = fl,
                            !.skip_directories = sk,
                            !.security.max_path_depth = md] :
        fl \in BOOLEAN, sk \in SkipLists, md \in {1, 2, 20} }

\* A caller is about to call clean_python_caches in one of the directories;
\* no sweep is running.
InitDirectory ==
    /\ vin \in { [fn |-> "clean_python_caches", path |-> p] : p \in WalkRoots }
    /\ vout = NoInput
    /\ config \in WalkConfigs
    /\ dry_run \in BOOLEAN
    /\ fs = Files \cup Links
    /\ pc = "Idle"
    /\ tasks = <<>>
    /\ jobs = <<>>
    /\ permits = config.max_parallel_operations
    /\ operation_stats = <<>>
    /\ results = <<>>
    /\ op = "clean_all_caches"
    /\ estimate = NoInput
    /\ outcome = NoInput

\* ResourceManager::clean_python_caches (resource_manager.rs:383-396): the
\* current directory is cleaned as a root; entries keeps the files the
\* walker yielded.
CallCleanPythonCaches ==
    /\ vin.fn = "clean_python_caches"
    /\ vout = NoInput
    /\ \E r \in { clean_cache_directory(vin.path, config, dry_run, fs) } :
          /\ vout' = [fn |-> vin.fn, res |-> r.res,
                      entries |-> IF IsOk(r.res) THEN Walker(vin.path, config, fs)
                                  ELSE <<>>]
          /\ fs' = r.fs
          /\ operation_stats' = (vin.path :> r.stat) @@ operation_stats
    /\ UNCHANGED <<vin, config, dry_run, pc, tasks, jobs, permits, results,
                   cleanerVars>>

NextDirectory == CallCleanPythonCaches

SpecDirectory == InitDirectory /\ [][NextDirectory]_vars

\* ------------------------------------------------ EnvironmentManager::new
\* ClearModelError::environment
environment(msg) == [kind |-> "Environment", value |-> msg]

\* EnvironmentManager::create_env_registry: the HashMap from variable name
\* to EnvVarConfig, without the descriptions.
create_env_registry ==
    [ n \in {"SUDO_PASSWORD", "DEBUG", "LOG_LEVEL", "MAX_PARALLEL_OPERATIONS",
             "CACHE_RETENTION_DAYS"} |->
        CASE n = "SUDO_PASSWORD" -> [required |-> FALSE, default |-> ""]
          [] n = "DEBUG"         -> [required |-> FALSE, default |-> "false"]
          [] n = "LOG_LEVEL"     -> [required |-> FALSE, default |-> "INFO"]
          [] n = "MAX_PARALLEL_OPERATIONS" -> [required |-> FALSE, default |-> "10"]
          [] n = "CACHE_RETENTION_DAYS"    -> [required |-> FALSE, default |-> "7"] ]

\* Assignments of values to some of the variables names.
Assignments(names, values) == UNION { [S -> values] : S \in SUBSET names }

\* The process environments the program is started in.
ProcessEnvs == Assignments({"SUDO_PASSWORD", "DEBUG"}, {"", "on"})

\* The .env file find_env_file locates: it is missing, or it assigns the
\* variables of vars.
EnvFiles ==
    { [there |-> FALSE, vars |-> <<>>] }
    \cup { [there |-> TRUE, vars |-> a] :
             a \in Assignments({"SUDO_PASSWORD", "LOG_LEVEL"}, {"", "pw"}) }

\* main is about to call EnvironmentManager::new; no sweep is running.
InitEnvironment ==
    /\ vin \in { [fn |-> "EnvironmentManager::new", env |-> e, env_file |-> f] :
                    e \in ProcessEnvs, f \in EnvFiles }
    /\ vout = NoInput
    /\ config = [DefaultConfig EXCEPT !.cache_paths = <<AbsPath(<<"cache">>)>>]
    /\ dry_run = TRUE
    /\ fs = Files \cup Links
    /\ pc = "Idle"
    /\ tasks = <<>>
    /\ jobs = <<>>
    /\ permits = config.max_parallel_operations
    /\ operation_stats = <<>>
    /\ results = <<>>
    /\ op = "clean_all_caches"
    /\ estimate = NoInput
    /\ outcome = NoInput

\* EnvironmentManager::new (environment.rs:27-31): the manager is built with
\* the registry and without a password.  vout keeps the manager, the process
\* environment, the .env file and the position of new.
CreateEnvRegistry ==
    /\ vin.fn = "EnvironmentManager::new"
    /\ vout = NoInput
    /\ vout' = [ fn |-> vin.fn, at |-> "load_environment",
                 env_registry |-> create_env_registry,
                 sudo_password |-> [some |-> FALSE, value |-> ""],
                 env |-> vin.env, env_file |-> vin.env_file,
                 res |-> NoInput ]
    /\ UNCHANGED <<vin, sweepVars>>

\* The file create_default_env_file writes (environment.rs:130-136): every
\* variable of the registry with its default value.
DefaultEnvFile(registry) ==
    [there |-> TRUE, vars |-> [n \in DOMAIN registry |-> registry[n].default]]

\* load_environment up to validate_environment (environment.rs:38-58): an
\* existing .env file is loaded, and dotenvy keeps the value of a variable
\* the process environment already has; a missing file is created and new
\* returns an error.
LoadEnvironment ==
    /\ vout # NoInput
    /\ vout.fn = "EnvironmentManager::new"
    /\ vout.at = "load_environment"
    /\ IF vout.env_file.there
       THEN vout' = [vout EXCEPT !.env = vout.env @@ vout.env_file.vars,
                                 !.at = "validate_environment"]
       ELSE vout' = [vout EXCEPT !.env_file = DefaultEnvFile(vout.env_registry),
                                 !.res = environment("Created new .env file"),
                                 !.at = "returned"]
    /\ UNCHANGED <<vin, sweepVars>>

\* validate_environment (environment.rs:142-162): the required variables
\* the environment lacks.
missing_vars(registry, env) ==
    { n \in DOMAIN registry : registry[n].required /\ n \notin DOMAIN env }

ValidateEnvironment ==
    /\ vout # NoInput
    /\ vout.fn = "EnvironmentManager::new"
    /\ vout.at = "validate_environment"
    /\ IF missing_vars(vout.env_registry, vout.env) # {}
       THEN vout' = [vout EXCEPT
                        !.res = environment("Missing required environment variables"),
                        !.at = "returned"]
       ELSE vout' = [vout EXCEPT !.at = "load_secure_data"]
    /\ UNCHANGED <<vin, sweepVars>>

\* load_secure_data (environment.rs:165-180): a SUDO_PASSWORD that is set and
\* not empty is kept as the password; new returns the manager.
LoadSecureData ==
    /\ vout # NoInput
    /\ vout.fn = "EnvironmentManager::new"
    /\ vout.at = "load_secure_data"
    /\ vout' = [vout EXCEPT
                   !.sudo_password =
                       IF "SUDO_PASSWORD" \in DOMAIN vout.env
                          /\ vout.env["SUDO_PASSWORD"] # ""
                       THEN [some |-> TRUE, value |-> vout.env["SUDO_PASSWORD"]]
                       ELSE @,
                   !.res = Ok("EnvironmentManager"),
                   !.at = "returned"]
    /\ UNCHANGED <<vin, sweepVars>>

NextEnvironment ==
    \/ CreateEnvRegistry
    \/ LoadEnvironment
    \/ ValidateEnvironment
    \/ LoadSecureData

SpecEnvironment == InitEnvironment /\ [][NextEnvironment]_vars

\* ------------------------------ a sweep on a host where files are created
\* The roots of the sweeps run while another process creates files.
SnapshotRoots == { AbsPath(<<"cache">>), AbsPath(<<"etc">>) }

\* The configurations of these sweeps: one root, or two roots that may be
\* the same.
SnapshotConfigs ==
    { [DefaultConfig EXCEPT !.cache_paths = cp,
                            !.max_parallel_operations = mp,
                            !.follow_symlinks = fl] :
        cp \in [{1} -> SnapshotRoots] \cup [{1, 2} -> SnapshotRoots],
        mp \in 1..MaxParallel, fl \in BOOLEAN }

InitSnapshot ==
    /\ config \in SnapshotConfigs
    /\ dry_run \in BOOLEAN
    /\ fs = Files \cup Links
    /\ pc = "Load"
    /\ tasks = <<>>
    /\ jobs = <<>>
    /\ permits = 0
    /\ operation_stats = <<>>
    /\ results = <<>>
    /\ vin = NoInput
    /\ vout = NoInput
    /\ op = "clean_all_caches"
    /\ estimate = NoInput
    /\ outcome = NoInput

\* The jobs that have walked their root.
Enumerated(j) == jobs[j].pc \in {"batch", "finish", "done"}

\* Another process of the host creates a regular file in an existing
\* directory, at any moment of the sweep; a file that is at that place is
\* replaced by the new one.  vout keeps, for the file now at each place, the
\* jobs that had walked their root when that file was created.
CreateFile ==
    /\ \E f \in LateFiles :
          /\ Front(f) \in Dirs
          /\ fs' = fs \cup {f}
          /\ vout' = [fn |-> "CreateFile",
                      after |-> (f :> { j \in DOMAIN jobs : Enumerated(j) })
                                @@ (IF vout = NoInput THEN <<>> ELSE vout.after)]
    /\ UNCHANGED <<config, dry_run, pc, tasks, jobs, permits, operation_stats,
                   results, vin, cleanerVars>>

NextSnapshot ==
    \/ Next
    \/ CreateFile

SpecSnapshot == InitSnapshot /\ [][NextSnapshot]_vars

\* ------------------------------------------------------------- properties
AllEntries == Files \cup Links

\* The files and links removed since the program started.
Removed == AllEntries \ fs

\* A job that holds a permit of the gate and has not completed.
HoldsPermit(j) == jobs[j].pc \in {"acquired", "walk", "batch", "finish"}

\* A job that has walked its root or is about to.
Traversing(j) == jobs[j].pc \in {"walk", "batch", "finish"} \/ jobs[j].entries # <<>>

Range(f) == { f[x] : x \in DOMAIN f }

\* C1: at every moment of a sweep the number of root jobs that hold a permit
\* of the admission gate and have not completed is at most
\* max_parallel_operations.
C1_GateBound ==
    Cardinality({ j \in DOMAIN jobs : HoldsPermit(j) }) <= config.max_parallel_operations

\* A sweep with more roots than permits: the gate is full and a job waits.
C1_Witness ==
    /\ permits = 0
    /\ Cardinality({ j \in DOMAIN jobs : HoldsPermit(j) }) = config.max_parallel_operations
    /\ \E j \in DOMAIN jobs : jobs[j].pc = "spawned"

\* The real location of a configured root.
RootLocation(i) == canonicalize(config.cache_paths[i], AllEntries).real

\* C2: every removed file lies inside one of the configured roots, for every
\* configuration, follow_symlinks = true included.
C2_DeletesOnlyInsideRoots ==
    \A f \in Removed :
        \E i \in 1..Len(config.cache_paths) : IsPrefix(RootLocation(i), f)

\* C3: a root is walked only after validate_and_sanitize_path has accepted it.
C3_WalksOnlyValidatedRoots ==
    \A j \in DOMAIN jobs :
        Traversing(j) => "validate_and_sanitize_path" \in jobs[j].checks

\* The roots whose path contains a user-data keyword, compared as
\* validate_cache_path compares it.
UserDataRoots ==
    { r \in RootCandidates : is_user_data(to_lowercase(to_string_lossy(r))) }

UserDataRoot(path) == path \in UserDataRoots

\* The job of a root was aborted by a security error before any traversal.
AbortedBySecurity(j) ==
    /\ ~Traversing(j)
    /\ jobs[j].pc = "done" => jobs[j].output.kind = "Security"

\* C4 as stated: the job of a root with a user-data keyword never traverses
\* and ends in a security error, whatever the configuration.
C4_UserDataRootAlwaysRejected ==
    \A j \in DOMAIN jobs : UserDataRoot(jobs[j].path) => AbortedBySecurity(j)

\* C4 amended: when security.validate_cache_paths is set, the job of a root
\* with a user-data keyword never traverses, processes no file, and ends in a
\* security error.
C4_UserDataRootRejectedWhenValidating ==
    config.security.validate_cache_paths =>
        \A j \in DOMAIN jobs :
            UserDataRoot(jobs[j].path) =>
                /\ AbortedBySecurity(j)
                /\ jobs[j].batch_results = <<>>
                /\ jobs[j].total_files = 0

\* The job of /cache/../Music has ended in a security error with validation
\* on.
C4_Witness ==
    /\ config.security.validate_cache_paths
    /\ \E j \in DOMAIN jobs :
          /\ UserDataRoot(jobs[j].path)
          /\ jobs[j].pc = "done"
          /\ jobs[j].output.kind = "Security"
          /\ jobs[j].checks = {"validate_cache_path"}

\* A path string that equals a blocklist entry or lies exactly one path
\* segment below one.
EqualOrOneSegmentBelow(path_str) ==
    \E i \in 1..Len(dangerous_paths) :
        LET d == dangerous_paths[i]
            pre == IF d = <<"/">> THEN d ELSE d \o <<"/">>
        IN  \/ path_str = d
            \/ /\ StartsWith(path_str, pre)
               /\ Len(path_str) > Len(pre)
               /\ \A k \in (Len(pre) + 1)..Len(path_str) : path_str[k] # "/"

\* C5: validate_deletion_safety returns an error for every path equal to a
\* blocklisted system path or exactly one segment below one.
C5_BlocklistCoversOneSegmentBelow ==
    (vout.fn = "validate_deletion_safety"
        /\ EqualOrOneSegmentBelow(to_string_lossy(vin.path)))
    => ~IsOk(vout.res)

\* The form of a path validate_and_sanitize_path compares with the base: the
\* canonical path when the path exists, else the lexically cleaned path,
\* anchored at the current directory when it is relative.
ResolvedForm(p) ==
    IF exists(p, fs) THEN AbsPath(canonicalize(p, fs).real) ELSE resolve_path_manually(p)

CanonicalBase(b) == AbsPath(canonicalize(b, fs).real)

ResolvesOutside(p, b) == ~starts_with(ResolvedForm(p), CanonicalBase(b))

HasParentDir(p) == \E i \in 1..Len(p.comps) : p.comps[i] = ".."

ValidateCalled == vout.fn = "validate_and_sanitize_path"

Anchored(p) == clean(IF p.abs THEN p ELSE join(current_dir, p))

LexicallyInside(p, b) == starts_with(Anchored(p), Anchored(b))

\* C7 as stated: for p lexically inside an existing base the call succeeds
\* and returns a path that starts with the canonical base.
C7_LexicallyInsideSucceeds ==
    (ValidateCalled /\ exists(vin.base, fs) /\ LexicallyInside(vin.path, vin.base))
    => /\ IsOk(vout.res)
       /\ starts_with(vout.res.value, CanonicalBase(vin.base))

\* Some prefix of the path, taken component by component from the root or
\* the current directory, is a symbolic link.
ThroughLink(p) ==
    LET q == IF p.abs THEN p ELSE join(current_dir, p)
    IN  \E k \in 1..Len(q.comps) :
            LET pre == AbsPath(SubSeq(q.comps, 1, k))
            IN  exists(pre, fs) /\ canonicalize(pre, fs).real # Anchored(pre).comps

\* A component name that validate_path_components rejects.
SuspiciousName(p) ==
    \E i \in 1..Len(p.comps) :
        p.comps[i] \notin {"..", "."} /\ Contains(NameChars[p.comps[i]], <<".", ".">>)

\* C7 amended: every path the call returns starts with the canonical base;
\* and for p lexically inside an existing base the call succeeds when no
\* symbolic link lies on p or on the base, the cleaned p has no component
\* name containing ".." and, when p is relative, it does not begin with "..".
C7_ReturnedPathInsideBase ==
    ValidateCalled =>
        /\ IsOk(vout.res) => starts_with(vout.res.value, CanonicalBase(vin.base))
        /\ ( /\ exists(vin.base, fs)
             /\ LexicallyInside(vin.path, vin.base)
             /\ ~ThroughLink(vin.path)
             /\ ~ThroughLink(vin.base)
             /\ ~HasParentDir(clean(vin.path))
             /\ ~SuspiciousName(Anchored(vin.path)) )
           => IsOk(vout.res)

\* A path that does not exist, lexically inside the base and below it, was
\* accepted.
C7_Witness ==
    /\ ValidateCalled
    /\ ~exists(vin.path, fs)
    /\ LexicallyInside(vin.path, vin.base)
    /\ ~ThroughLink(vin.path)
    /\ Len(Anchored(vin.path).comps) > Len(Anchored(vin.base).comps)
    /\ IsOk(vout.res)
    /\ vout.res.value = Anchored(vin.path)

\* The root of a job passes the security checks of clean_cache_directory.
PassesChecks(path) == IsOk(SecurityChecks(path, config).res)

\* C8: when a sweep has returned, every root that raised no security
\* violation has been processed to completion and its result is in the
\* returned list, whatever happened to the other roots.
C8_ViolationAbortsOnlyItsRoot ==
    pc = "Done" =>
        \A j \in DOMAIN jobs :
            PassesChecks(tasks[j]) =>
                /\ jobs[j].pc = "done"
                /\ IsOk(jobs[j].output)
                /\ jobs[j].output.value.path = tasks[j]
                /\ \E k \in 1..Len(results) : results[k] = jobs[j].output.value

\* A sweep has returned the result of one root although the job of the root
\* before it ended in a security violation.
C8_Witness ==
    /\ pc = "Done"
    /\ Len(tasks) = 2
    /\ jobs[1].output.kind = "Security"
    /\ IsOk(jobs[2].output)
    /\ results = <<jobs[2].output.value>>

RealEntry(f) == RemoveTarget(f, AllEntries)

EndsWith(s, suf) ==
    /\ Len(suf) < Len(s)
    /\ \A i \in 1..Len(suf) : s[Len(s) - Len(suf) + i] = suf[i]

\* The cleanup policy, stated for a file reached by the access path e: its
\* name ends in a configured extension, or its directory is named
\* __pycache__, or it is older than max_cache_age_days days.
PolicyHolds(e) ==
    \/ \E x \in config.python_cache_extensions : EndsWith(NameChars[Last(e.comps)], x)
    \/ Len(e.comps) > 1 /\ e.comps[Len(e.comps) - 1] = "__pycache__"
    \/ \E f \in RealEntry(e) :
          /\ f \in Files \ NoMTime
          /\ Now - FileMTime(f) > config.max_cache_age_days * 24 * 3600

\* The files a sweep is to remove: those the walker yields below the roots
\* that pass the security checks and for which the cleanup policy holds.
Selected ==
    UNION { RealEntry(f) :
              f \in UNION { { e \in Range(Walker(tasks[j], config, AllEntries)) :
                                PolicyHolds(e) } :
                            j \in { i \in DOMAIN tasks : PassesChecks(tasks[i]) } } }

\* C10: after a sweep that is no dry run, exactly the files the walker yields
\* and the policy selects are removed and every other file is still there.
C10_RemovesExactlySelected ==
    (pc = "Done" /\ ~dry_run) => Removed = Selected

\* Scenarios A and B: a.pyc and the old c.log are removed, b.txt is kept.
C10_Witness ==
    /\ pc = "Done"
    /\ ~dry_run
    /\ <<"cache", "a.pyc">> \notin fs
    /\ <<"Music", "c.log">> \notin fs
    /\ <<"cache", "b.txt">> \in fs
    /\ \E k \in 1..Len(results) :
          /\ results[k].path = AbsPath(<<"cache">>)
          /\ results[k].files_removed = 1
          /\ results[k].bytes_freed = 1024

\* The regular file the path of a should_clean_file call names, if any.
PolicyFile == { f \in RealEntry(vin.path) : f \in Files }

\* Age of a file in seconds, zero when its modification time lies ahead of
\* the clock.
Age(f) == IF FileMTime(f) > Now THEN 0 ELSE Now - FileMTime(f)

\* Rule 1: the name has a stem and ends in a configured extension, compared
\* character by character.
ExtensionRule(p) ==
    \E x \in config.python_cache_extensions : EndsWith(NameChars[Last(p.comps)], x)

\* Rule 2: the component before the file name is __pycache__.
PycacheRule(p) == Len(p.comps) > 1 /\ p.comps[Len(p.comps) - 1] = "__pycache__"

\* Rule 3: the host reports the modification time of the file and the file
\* is older than max_cache_age_days days.
AgeRule(f) == f \notin NoMTime /\ Age(f) > config.max_cache_age_days * DaySecs

\* should_clean_file has returned for the path of an existing regular file.
PolicyDecided == vout # NoInput /\ vout.fn = "should_clean_file" /\ PolicyFile # {}

\* C11: for an existing regular file should_clean_file answers clean when
\* the extension rule holds, else clean when the __pycache__ rule holds,
\* else clean exactly when the clamped age exceeds max_cache_age_days, so a
\* fresh .pyc file is cleaned, a fresh .txt file and a file with an
\* upper-case .PYC extension are not.
C11_RulesInOrder ==
    PolicyDecided =>
        \A f \in PolicyFile :
            vout.res = Ok(IF ExtensionRule(vin.path) THEN TRUE
                          ELSE IF PycacheRule(vin.path) THEN TRUE
                          ELSE AgeRule(f))

\* The fresh f.PYC, whose extension differs from .pyc only in case, is
\* retained under the default maximum age.
C11_Witness ==
    /\ PolicyDecided
    /\ vin.path = AbsPath(<<"var", "f.PYC">>)
    /\ config.max_cache_age_days = 7
    /\ vout.res = Ok(FALSE)

\* The jobs that have returned a CleanupResult.
Returned == { j \in DOMAIN jobs : jobs[j].pc = "done" /\ IsOk(jobs[j].output) }

\* The indexes of the entries a job counted in files_removed.
Counted(j) ==
    { i \in DOMAIN jobs[j].aggregated :
        IsOk(jobs[j].aggregated[i]) /\ jobs[j].aggregated[i].value[1] = 1 }

\* The indexes of the entries whose processing failed.
Failed(j) == { i \in DOMAIN jobs[j].aggregated : ~IsOk(jobs[j].aggregated[i]) }

RECURSIVE SizeOf(_, _)
\* Sum of the sizes of the files the entries S of job j name.
SizeOf(j, S) ==
    IF S = {} THEN 0
    ELSE LET i == CHOOSE x \in S : TRUE
             f == CHOOSE x \in RealEntry(jobs[j].entries[i]) : TRUE
         IN  FileSize(f) + SizeOf(j, S \ {i})

\* C13: in every returned CleanupResult files_removed is the number of files
\* the job counted and bytes_freed is the sum of the sizes of exactly these
\* files, in whatever order the workers took the files of a batch; without
\* dry run each of them is gone.
C13_BytesAreSizesOfCounted ==
    \A j \in Returned :
        /\ jobs[j].output.value.files_removed = Cardinality(Counted(j))
        /\ jobs[j].output.value.bytes_freed = SizeOf(j, Counted(j))
        /\ ~dry_run =>
              \A i \in Counted(j) : RealEntry(jobs[j].entries[i]) \cap fs = {}

\* The job of /cache has followed the link and counted a.pyc and c.log:
\* 1024 + 7 bytes.
C13_Witness ==
    \E j \in Returned :
        /\ Cardinality(Counted(j)) = 2
        /\ jobs[j].output.value.files_removed = 2
        /\ jobs[j].output.value.bytes_freed = 1031

\* C14: a returned CleanupResult with files_removed = 0 has bytes_freed = 0.
C14_NoFilesNoBytes ==
    /\ \A j \in Returned :
          jobs[j].output.value.files_removed = 0 => jobs[j].output.value.bytes_freed = 0
    /\ \A k \in 1..Len(results) :
          results[k].files_removed = 0 => results[k].bytes_freed = 0

\* A job has gone through files, all of them retained or failed, and has
\* returned a result without files and without bytes.
C14_Witness ==
    \E j \in Returned :
        /\ jobs[j].aggregated # <<>>
        /\ jobs[j].output.value.files_removed = 0
        /\ jobs[j].output.value.bytes_freed = 0

\* No root is dispatched twice, so that no two jobs write the same counters.
DistinctRoots == \A a, b \in DOMAIN tasks : tasks[a] = tasks[b] => a = b

\* C15: when the job of a root has returned, the bytes_cleaned counter of the
\* root equals the bytes_freed of its CleanupResult, whatever the number of
\* batches; stated for sweeps that dispatch every root once.
C15_StatsBytesEqualResult ==
    DistinctRoots =>
        \A j \in Returned :
            /\ jobs[j].path \in DOMAIN operation_stats
            /\ operation_stats[jobs[j].path].bytes_cleaned
                  = jobs[j].output.value.bytes_freed

\* C16: during a sweep no counter of a root decreases and no root loses its
\* counters.
C16_CountersNeverDecrease ==
    [][\A k \in DOMAIN operation_stats :
          /\ k \in DOMAIN operation_stats'
          /\ operation_stats'[k].files_processed >= operation_stats[k].files_processed
          /\ operation_stats'[k].bytes_cleaned >= operation_stats[k].bytes_cleaned
          /\ operation_stats'[k].errors_encountered
                >= operation_stats[k].errors_encountered]_vars

\* C17: every file whose processing failed has a string in the errors list
\* of the CleanupResult of its root.
C17_FileFailuresRecorded ==
    \A j \in Returned :
        Len(jobs[j].output.value.errors) = Cardinality(Failed(j))

\* The dry-run sweep of estimate_cleanup_space has been followed by a sweep
\* of clean_all_caches, which has returned its results.
SecondSweepDone ==
    /\ estimate # NoInput
    /\ op = "clean_all_caches"
    /\ pc = "Done"

\* C12: while the sweeps are dry runs no file is removed, and a second
\* dry-run sweep over the unchanged tree, read at the same clock time,
\* returns the results of the first: the same roots in the same order with
\* the same files_removed, bytes_freed and errors.
C12_DryRunIdempotent ==
    /\ dry_run => fs = Files \cup Links
    /\ (SecondSweepDone /\ dry_run) => results = estimate.results

\* Two dry-run sweeps of /cache have each counted a.pyc, which is still
\* there.
C12_Witness ==
    /\ SecondSweepDone
    /\ dry_run
    /\ results = estimate.results
    /\ \E k \in 1..Len(results) :
          /\ results[k].path = AbsPath(<<"cache">>)
          /\ results[k].files_removed >= 1
    /\ <<"cache", "a.pyc">> \in fs

\* C18: estimate_cleanup_space removes no file, and the sweep that follows
\* it over the unchanged tree without dry run frees exactly the bytes the
\* estimate returned, whatever the root list.
C18_EstimateEqualsRealSweep ==
    /\ op = "estimate_cleanup_space" => fs = Files \cup Links
    /\ (SecondSweepDone /\ ~dry_run) => estimate.bytes = SumBytesFreed(results)

\* C20: CacheCleaner::clean_all_caches returns Ok to main whatever files
\* could not be removed and whatever root raised a security violation.
C20_TopLevelAlwaysSucceeds ==
    pc = "Exit" => IsOk(outcome)

\* A configuration with an empty root list, no parallelism or no depth.
ZeroConfig ==
    \/ config.cache_paths = <<>>
    \/ config.max_parallel_operations = 0
    \/ config.security.max_path_depth = 0

\* C19: under a configuration with an empty root list, max_parallel_operations
\* = 0 or max_path_depth = 0 the program ends with a configuration error
\* before a sweep begins: no task is spawned, no counter is written and no
\* file is removed.
C19_ZeroConfigNeverSweeps ==
    ZeroConfig =>
        /\ pc \in {"Load", "ConfigError"}
        /\ tasks = <<>> /\ jobs = <<>>
        /\ operation_stats = <<>>
        /\ fs = Files \cup Links

\* A configuration that lists an existing root but allows no parallel
\* operation has been rejected.
C19_Witness ==
    /\ pc = "ConfigError"
    /\ config.max_parallel_operations = 0
    /\ config.security.max_path_depth # 0
    /\ config.cache_paths = <<AbsPath(<<"cache">>)>>

\* C30: for a file whose modification time the host does not report,
\* should_clean_file returns no error and skips the age rule: the answer is
\* clean exactly when the extension rule or the __pycache__ rule holds, and
\* retain otherwise, whatever max_cache_age_days is.
C30_NoMTimeSkipsAgeRule ==
    (PolicyDecided /\ PolicyFile \subseteq NoMTime) =>
        vout.res = Ok(ExtensionRule(vin.path) \/ PycacheRule(vin.path))

\* With max_cache_age_days = 0, n.txt is retained, n.pyc and the n.txt in
\* __pycache__ are cleaned; none of the three has a modification time.
C30_Witness ==
    /\ PolicyDecided
    /\ PolicyFile \subseteq NoMTime
    /\ config.max_cache_age_days = 0
    /\ \/ vin.path = AbsPath(<<"var", "n.txt">>) /\ vout.res = Ok(FALSE)
       \/ vin.path = AbsPath(<<"var", "n.pyc">>) /\ vout.res = Ok(TRUE)
       \/ vin.path = AbsPath(<<"var", "__pycache__", "n.txt">>) /\ vout.res = Ok(TRUE)

\* clean_python_caches has returned a result for its directory.
DirectoryCleaned ==
    vout # NoInput /\ vout.fn = "clean_python_caches" /\ IsOk(vout.res)

\* The real location of the directory clean_python_caches was called in.
WalkRoot == canonicalize(vin.path, AllEntries).real

\* The links to regular files that lie directly in the directory cleaned.
FileLinksInRoot ==
    { l \in Links : LinkTarget(l) \in Files /\ Front(l) = WalkRoot }

\* C23: a link to a regular file is reported by the walker whatever
\* follow_symlinks is, and when it is deleted the link is removed and its
\* target stays.
C23_SymlinkedFilesAlwaysReported ==
    DirectoryCleaned =>
        \A l \in FileLinksInRoot :
            /\ AbsPath(l) \in Range(vout.entries)
            /\ l \notin fs => LinkTarget(l) \in fs

\* The files whose directory is named __pycache__, below the directory
\* cleaned and no deeper than max_path_depth.
PycacheFilesBelowRoot ==
    { f \in Files :
        /\ IsPrefix(WalkRoot, f)
        /\ Len(f) >= 2
        /\ f[Len(f) - 1] = "__pycache__"
        /\ Len(f) - Len(WalkRoot) <= config.security.max_path_depth }

\* C24: with the default skip_directories, a sweep that is no dry run
\* removes every file whose directory is named __pycache__ below its root.
C24_PycacheFilesRemoved ==
    ( /\ DirectoryCleaned
      /\ ~dry_run
      /\ config.skip_directories = DefaultConfig.skip_directories )
    => PycacheFilesBelowRoot \cap fs = {}

\* The components of an entry below the directory cleaned.
BelowRoot(e) == SubSeq(e.comps, Len(vin.path.comps) + 1, Len(e.comps))

\* The regular files below the directory cleaned, no deeper than
\* max_path_depth, none of whose directories below the root bears a name of
\* skip_directories.
FilesOutsideSkipped ==
    { f \in Files :
        /\ IsPrefix(WalkRoot, f)
        /\ Len(f) > Len(WalkRoot)
        /\ Len(f) - Len(WalkRoot) <= config.security.max_path_depth
        /\ \A k \in 1..(Len(f) - 1) :
              k > Len(WalkRoot) => f[k] \notin config.skip_directories }

\* C25: no file below a directory named in skip_directories is visited or
\* deleted, and only directories are pruned: every regular file outside
\* such directories is visited, whatever its own name is.
C25_OnlyDirectoriesSkipped ==
    (DirectoryCleaned /\ file_name(vin.path) \notin config.skip_directories) =>
        /\ \A i \in 1..Len(vout.entries) :
              \A k \in 1..(Len(BelowRoot(vout.entries[i])) - 1) :
                  BelowRoot(vout.entries[i])[k] \notin config.skip_directories
        /\ \A f \in FilesOutsideSkipped : AbsPath(f) \in Range(vout.entries)

\* C26: every file the walker yields lies at most max_path_depth levels
\* below the root, every file removed is one the walker yielded, and the
\* directories beyond the bound are pruned without an error: the call
\* returns a result without errors and counts no error.
C26_WalkIsDepthBounded ==
    DirectoryCleaned =>
        /\ \A i \in 1..Len(vout.entries) :
              Len(BelowRoot(vout.entries[i])) <= config.security.max_path_depth
        /\ Removed \subseteq UNION { RealEntry(e) : e \in Range(vout.entries) }
        /\ vout.res.value.errors = <<>>
        /\ operation_stats[vin.path].errors_encountered = 0

\* With max_path_depth = 1 and __pycache__ not skipped, /var was cleaned:
\* n.pyc at depth 1 is gone, the files of /var/__pycache__ at depth 2, which
\* the parent rule selects, are kept.
C26_Witness ==
    /\ DirectoryCleaned
    /\ vin.path = AbsPath(<<"var">>)
    /\ ~dry_run
    /\ config.security.max_path_depth = 1
    /\ "__pycache__" \notin config.skip_directories
    /\ <<"var", "n.pyc">> \notin fs
    /\ <<"var", "__pycache__", "b.txt">> \in fs

\* C22: from the construction of the ResourceManager on, the free permits
\* and the permits held by jobs that have not completed add up to
\* max_parallel_operations; so whenever no job is running, and after a
\* sweep in which jobs ended with a security error, all the permits are
\* free.
C22_PermitsReturned ==
    pc \notin {"Load", "ConfigError"} =>
        /\ permits + Cardinality({ j \in DOMAIN jobs : HoldsPermit(j) })
              = config.max_parallel_operations
        /\ (\A j \in DOMAIN jobs : ~HoldsPermit(j)) =>
              permits = config.max_parallel_operations

\* A sweep has returned after one job ended with a security error and
\* another with a result, and every permit is free.
C22_Witness ==
    /\ pc = "Done"
    /\ \E j \in DOMAIN jobs : jobs[j].output.kind = "Security"
    /\ \E j \in DOMAIN jobs : IsOk(jobs[j].output)
    /\ permits = config.max_parallel_operations

\* The files of the batch a job is at: at most batch_size consecutive
\* entries, in the order of the walker.
CurrentBatch(j) ==
    { i \in 1..Len(jobs[j].entries) :
        jobs[j].batch_start <= i /\ i < jobs[j].batch_start + batch_size }

\* The files of the batches before the one a job is at.
EarlierBatches(j) ==
    { i \in 1..Len(jobs[j].entries) : i < jobs[j].batch_start }

\* C27: the batches of a job are consecutive runs of at most batch_size
\* entries of the walker's list; a file is processed only while its batch is
\* the current one, in any order within the batch; and when a file of a
\* batch is processed, every earlier batch has been reduced into the totals
\* of the job and into the statistics of the root.
C27_BatchesInOrder ==
    \A j \in DOMAIN jobs :
        /\ jobs[j].batch_start % batch_size = 1 % batch_size
        /\ DOMAIN jobs[j].batch_results \subseteq CurrentBatch(j)
        /\ DOMAIN jobs[j].aggregated = EarlierBatches(j)
        /\ jobs[j].total_files = Cardinality(Counted(j))
        /\ jobs[j].total_bytes = SizeOf(j, Counted(j))
        /\ (DistinctRoots /\ pc = "AwaitAll" /\ jobs[j].pc \in {"batch", "finish", "done"}
              /\ jobs[j].entries # <<>>) =>
              operation_stats[jobs[j].path].files_processed
                  = Cardinality(EarlierBatches(j))

\* A job is at its second batch: the first batch is reduced, a file of it
\* is counted in the totals and the statistics, and a file of the second
\* batch has been processed; in another job the second file of the first
\* batch has been processed before the first one.
C27_Witness ==
    \E j, k \in DOMAIN jobs :
        /\ jobs[j].pc = "batch"
        /\ jobs[j].batch_start = 1 + batch_size
        /\ jobs[j].total_files > 0
        /\ operation_stats[jobs[j].path].files_processed = batch_size
        /\ DOMAIN jobs[j].batch_results = {jobs[j].batch_start}
        /\ jobs[k].batch_start = 1
        /\ DOMAIN jobs[k].batch_results = {2}

\* The positions of clean_all_caches, in the order of the state machine;
\* the resource check is the step from Idle to Dispatch.
SweepOrder == <<"Idle", "Dispatch", "AwaitAll", "Summarize", "Done">>

SweepIndex(p) == CHOOSE i \in 1..Len(SweepOrder) : SweepOrder[i] = p

InSweep(p) == \E i \in 1..Len(SweepOrder) : SweepOrder[i] = p

\* Every job the sweep has dispatched has completed.
AllResolved == \A j \in DOMAIN jobs : jobs[j].pc = "done"

\* What the claim says besides the order of the positions: no job exists
\* before the resource check has finished, the resource check can always be
\* left towards Dispatch, and the results are collected and returned only
\* when every dispatched job has completed.
SweepObligations ==
    /\ pc \in {"Load", "Idle", "Dispatch"} => jobs = <<>>
    /\ pc = "Idle" => ENABLED CheckSystemResources
    /\ pc \in {"Summarize", "Done"} => AllResolved

\* C28 as stated: a sweep goes through Idle, ResourceCheck, Dispatch,
\* AwaitAll, Summarize and Done, each position followed by the next one.
C28_EverySweepVisitsEveryState ==
    /\ []SweepObligations
    /\ [][(InSweep(pc) /\ InSweep(pc') /\ pc' # pc)
             => SweepIndex(pc') = SweepIndex(pc) + 1]_vars

\* C28 amended: the positions follow each other in that order, except that
\* a sweep that finds no existing root goes from Dispatch to Done with the
\* empty list, without AwaitAll and Summarize.
C28_SweepOrderUnlessNoRoot ==
    /\ []SweepObligations
    /\ [][(InSweep(pc) /\ InSweep(pc') /\ pc' # pc)
             => \/ SweepIndex(pc') = SweepIndex(pc) + 1
                \/ /\ pc = "Dispatch"
                   /\ pc' = "Done"
                   /\ existing_cache_paths(config, fs) = <<>>
                   /\ jobs' = <<>>
                   /\ results' = <<>>]_vars

\* A sweep of two roots has gone through every position and has returned
\* the results of its jobs.
C28_Witness ==
    /\ pc = "Done"
    /\ Len(jobs) = 2
    /\ AllResolved
    /\ results # <<>>

\* The key under which a job inserts and updates its OperationStats.
StatsKey(j) == to_string_lossy(jobs[j].path)

\* A job that has inserted its OperationStats entry, walks or processes its
\* root and has not completed.
Writing(j) == jobs[j].pc \in {"walk", "batch", "finish"}

\* C29: no two jobs of a sweep that run at the same time have inserted, and
\* go on updating, the OperationStats entry of the same key.
C29_OneJobPerStatsKey ==
    \A a, b \in DOMAIN jobs :
        (a # b /\ Writing(a) /\ Writing(b)) => StatsKey(a) # StatsKey(b)

\* Job j has been dispatched and waits for a permit.
Waiting(j) == j \in DOMAIN jobs /\ jobs[j].pc = "spawned"

\* Job j has got its permit.
Admitted(j) == j \in DOMAIN jobs /\ jobs[j].pc # "spawned"

\* Job j has completed.
JobCompleted(j) == j \in DOMAIN jobs /\ jobs[j].pc = "done"

\* C21: under fair scheduling every dispatched job eventually gets a permit
\* and completes, and a sweep that has started eventually returns, also
\* when there are more roots than permits.
C21_SweepRunsToCompletion ==
    /\ \A j \in JobIds : Waiting(j) ~> Admitted(j)
    /\ \A j \in JobIds : Waiting(j) ~> JobCompleted(j)
    /\ (pc = "Idle") ~> (pc = "Done")

\* A sweep of two roots through a gate of one permit has returned after
\* both jobs have completed.
C21_Witness ==
    /\ pc = "Done"
    /\ Len(tasks) > config.max_parallel_operations
    /\ AllResolved

\* validate_and_sanitize_path has returned for an allowed_base that cannot
\* be canonicalized.
MissingBaseValidated == ValidateCalled /\ ~exists(vin.base, fs)

\* C31: when allowed_base cannot be canonicalized the call fails with a
\* configuration error, not with a security or traversal error, and returns
\* no path.
C31_MissingBaseIsConfigurationError ==
    MissingBaseValidated =>
        /\ vout.res.kind = "Configuration"
        /\ vout.res.kind \notin {"Security", "PathTraversal"}
        /\ ~IsOk(vout.res)

\* EnvironmentManager::new has built the registry of the manager.
RegistryCreated == vout # NoInput /\ vout.fn = "EnvironmentManager::new"

\* C32: the registry create_env_registry builds contains the key
\* SUDO_PASSWORD and marks it as required.
C32_SudoPasswordRequired ==
    RegistryCreated =>
        /\ "SUDO_PASSWORD" \in DOMAIN vout.env_registry
        /\ vout.env_registry["SUDO_PASSWORD"].required

\* The indexes of the entries a job has counted as removed so far, in the
\* batches it has aggregated and in the batch it is processing.
CountedSoFar(j) ==
    { i \in DOMAIN jobs[j].aggregated :
        IsOk(jobs[j].aggregated[i]) /\ jobs[j].aggregated[i].value[1] = 1 }
    \cup
    { i \in DOMAIN jobs[j].batch_results :
        IsOk(jobs[j].batch_results[i]) /\ jobs[j].batch_results[i].value[1] = 1 }

RECURSIVE SumFilesRemoved(_)
SumFilesRemoved(rs) ==
    IF rs = <<>> THEN 0 ELSE Head(rs).files_removed + SumFilesRemoved(Tail(rs))

\* C33: in a sweep that is no dry run every file is counted as removed by at
\* most one job, also when two roots are the same or one reaches into the
\* other and their jobs race on the file (its count and its bytes are in
\* the result of that one job), and the files_removed of the results sum to
\* no more than the number of files deleted.
C33_FileCountedAtMostOnce ==
    ~dry_run =>
        /\ \A j, k \in DOMAIN jobs :
              \A i \in CountedSoFar(j), l \in CountedSoFar(k) :
                  RealEntry(jobs[j].entries[i]) = RealEntry(jobs[k].entries[l])
                      => (j = k /\ i = l)
        /\ SumFilesRemoved(results) <= Cardinality(Removed)

\* Two jobs process the same file at the same time: one has removed and
\* counted it, the other has got an error for it.
C33_Witness ==
    /\ ~dry_run
    /\ \E j, k \in DOMAIN jobs :
          /\ j # k
          /\ jobs[j].pc = "batch"
          /\ jobs[k].pc = "batch"
          /\ \E i \in CountedSoFar(j), l \in DOMAIN jobs[k].batch_results :
                /\ RealEntry(jobs[j].entries[i]) = RealEntry(jobs[k].entries[l])
                /\ ~IsOk(jobs[k].batch_results[l])

\* The indexes of cache_paths whose root exists and passes the security
\* checks: the roots whose jobs succeed.
SucceedingRoots ==
    { i \in 1..Len(config.cache_paths) :
        exists(config.cache_paths[i], AllEntries) /\ PassesChecks(config.cache_paths[i]) }

\* The k-th index of SucceedingRoots, in configuration order.
NthSucceeding(k) ==
    CHOOSE i \in SucceedingRoots : Cardinality({ x \in SucceedingRoots : x < i }) = k - 1

\* ResourceManager::clean_all_caches has collected the results of its tasks.
Collected == pc \in {"Summarize", "Done", "PythonCaches", "Exit"}

\* The list rs holds one result per succeeding root, in configuration order.
InConfigurationOrder(rs) ==
    /\ Len(rs) = Cardinality(SucceedingRoots)
    /\ \A k \in 1..Len(rs) : rs[k].path = config.cache_paths[NthSucceeding(k)]

\* C34: the list clean_all_caches returns is ordered like cache_paths: when
\* the results are collected they are the results of the roots whose jobs
\* succeeded, in configuration order, in whatever order the jobs acquired
\* the gate and finished, and the list does not change afterwards.
C34_ResultsInConfigurationOrder ==
    [][/\ (~Collected /\ Collected') => InConfigurationOrder(results')
       /\ Collected => results' = results]_vars

\* Through a gate of one permit the job of the second root, /cache/../Music,
\* ran before the job of the first, /cache: it removed and counted c.log,
\* which the walk of /cache then no longer found behind the link.  The
\* result of /cache is the first of the list all the same.
C34_Witness ==
    /\ pc = "Done"
    /\ ~dry_run
    /\ config.max_parallel_operations = 1
    /\ config.cache_paths = <<AbsPath(<<"cache">>), AbsPath(<<"cache", "..", "Music">>)>>
    /\ Len(results) = 2
    /\ results[1].path = AbsPath(<<"cache">>)
    /\ results[2].path = AbsPath(<<"cache", "..", "Music">>)
    /\ results[2].files_removed = 1
    /\ AbsPath(<<"cache", "lnk", "c.log">>) \in Range(Walker(tasks[1], config, AllEntries))
    /\ AbsPath(<<"cache", "lnk", "c.log">>) \notin Range(jobs[1].entries)

\* The files and links the entries of job j name: its snapshot of the tree.
Snapshot(j) ==
    UNION { RemoveTarget(jobs[j].entries[i], RegularFiles \cup Links) :
              i \in DOMAIN jobs[j].entries }

\* The job of root j takes the step.
StepOf(j) == j \in DOMAIN jobs /\ jobs'[j] # jobs[j]

\* The files that are there and were created after job j had walked its
\* root.
CreatedAfterWalk(j) ==
    IF vout = NoInput THEN {}
    ELSE { f \in DOMAIN vout.after : f \in fs /\ j \in vout.after[f] }

\* Within one root job the walk ends before the first file of the root is
\* examined or removed, and the entries to process do not change afterwards.
WalkEndsBeforeProcessing(j) ==
    /\ ~Enumerated(j) =>
          /\ fs' = fs
          /\ jobs[j].batch_results = <<>>
          /\ jobs[j].aggregated = <<>>
    /\ Enumerated(j) => jobs'[j].entries = jobs[j].entries

Completes(j) == StepOf(j) /\ jobs'[j].pc = "done"

\* C36: when a root job completes, the files_processed counter of its root
\* is the number of regular files the walker enumerated and
\* errors_encountered the number of those whose processing returned an
\* error; both are zero for a root rejected by a security check.
C36_CountersAtCompletion ==
    [][\A j \in JobIds :
          Completes(j) =>
              /\ jobs[j].path \in DOMAIN operation_stats'
              /\ operation_stats'[jobs[j].path].files_processed
                    = IF IsOk(jobs'[j].output) THEN Len(jobs[j].entries) ELSE 0
              /\ operation_stats'[jobs[j].path].errors_encountered
                    = IF IsOk(jobs'[j].output) THEN Cardinality(Failed(j)) ELSE 0]_vars

\* The Python-cache cleanup of the current directory runs in this step.
PythonCleanupRuns == pc = "PythonCaches" /\ pc' = "Exit"

\* C37: in CacheCleaner::clean_all_caches the Python-cache cleanup of the
\* current directory starts only after the framework-specific cleanup, which
\* follows the return of the sweep, and after every root job of the sweep
\* has completed; no root job takes a step once it may start, and it takes
\* no permit of the admission gate.
C37_PythonCleanupAfterSweep ==
    [][/\ (pc' = "PythonCaches" /\ pc # "PythonCaches")
             => (pc = "Done" /\ op = "clean_all_caches")
       /\ pc \in {"PythonCaches", "Exit"}
             => /\ \A j \in DOMAIN jobs : jobs[j].pc = "done"
                /\ permits = config.max_parallel_operations
                /\ jobs' = jobs
       /\ PythonCleanupRuns => permits' = permits]_vars

\* After a sweep of two roots, both jobs completed and every permit back,
\* the Python-cache cleanup has run in /Music and processed a file there.
C37_Witness ==
    /\ pc = "Exit"
    /\ Len(tasks) = 2
    /\ \A j \in DOMAIN jobs : jobs[j].pc = "done"
    /\ permits = config.max_parallel_operations
    /\ AbsPath(<<"Music">>) \notin Range(tasks)
    /\ AbsPath(<<"Music">>) \in DOMAIN operation_stats
    /\ operation_stats[AbsPath(<<"Music">>)].files_processed > 0

====
